---- MODULE Spec2Model ----
(***************************************************************************)
(* A model of the birding cache layer: the SQLite-backed temporal store    *)
(* (src/src/birding/sqlite_cache.py), the cache-or-fetch retrieval         *)
(* functions built on it (ebird_api.py, geocoding.py, inaturalist.py) and  *)
(* the expanding-radius hotspot search and the region-code resolution.     *)
(*                                                                         *)
(* Time is in whole seconds, as int(time.time()) gives it.  Coordinates    *)
(* are fixed-point integers in units of 1e-5 degree, so rounding to four   *)
(* decimals is rounding to a multiple of 10.                               *)
(***************************************************************************)
EXTENDS Integers, Sequences, FiniteSets, TLC

VARIABLES
    focus,   \* the table (and so the query shape) this run exercises
    rows,    \* the rows of the SQLite file, all tables together
    now,     \* the wall clock, int(time.time())
    last,    \* the latest call of the store API and what it gave
    call,    \* the frame of the cache-or-fetch call in progress
    search,  \* the frame of find_nearest_hotspot in progress
    region,  \* the frame of find_region_code in progress
    tables,  \* the tables the SQLite file has
    taxa     \* the TaxonomicClass being filled, and the species given to it

vars == <<focus, rows, now, last, call, search, region, tables, taxa>>

----------------------------------------------------------------------------
(* Bounds of the model *)

\* How many seconds past the start, and past an expiry, a run looks.
MaxSkew == 1

----------------------------------------------------------------------------
(* sqlite_cache.py: constants *)

SECONDS_PER_DAY == 60 * 60 * 24

\* Hotspot data kept for a week only.
HOTSPOT_TTL_WEEK == 7 * SECONDS_PER_DAY

HOTSPOT_TTL_S == 30 * SECONDS_PER_DAY

SPECIES_LIST_TTL_S == 7 * SECONDS_PER_DAY

SPECIES_TAXONOMY_TTL_S == 90 * SECONDS_PER_DAY

PHOTO_OBSERVATIONS_TTL_S == 7 * SECONDS_PER_DAY

VALID_TABLES ==
    [ nearby_hotspots_cache    |-> {"lat_round", "lng_round", "dist_km"},
      geocode_cache            |-> {"provider", "query"},
      species_list_cache       |-> {"area_code"},
      species_taxonomy_cache   |-> {"species_id"},
      observation_photos_cache |-> {"taxon_name", "day_of_month"},
      region_info_cache        |-> {"region_code"},
      hotspots_in_region_cache |-> {"region_code"} ]

TABLE_TTL_S ==
    [ geocode_cache            |-> 90 * SECONDS_PER_DAY,
      region_info_cache        |-> 30 * SECONDS_PER_DAY,
      hotspots_in_region_cache |-> 7 * SECONDS_PER_DAY ]

\* The tables CREATE TABLE IF NOT EXISTS makes, each with its primary key.
SCHEMA_TABLES == DOMAIN VALID_TABLES

----------------------------------------------------------------------------
(* Python values and their JSON text *)

\* None, as a value that compares with payloads.
None == [shape |-> "None", items |-> <<>>]

\* json.dumps(payload, default=str): a value json cannot encode (a datetime)
\* is replaced by its str().
DefaultStr(item) ==
    IF item.kind = "datetime" THEN [item EXCEPT !.kind = "str"] ELSE item

JsonEncodable(payload) ==
    \A i \in 1..Len(payload.items) : payload.items[i].kind # "datetime"

json_dumps_default_str(payload) ==
    [text  |-> "json",
     shape |-> payload.shape,
     items |-> [i \in 1..Len(payload.items) |-> DefaultStr(payload.items[i])]]

\* json.dumps(payload), no default: only called on encodable payloads below.
json_dumps(payload) ==
    [text |-> "json", shape |-> payload.shape, items |-> payload.items]

json_loads(response_json) ==
    [shape |-> response_json.shape, items |-> response_json.items]

----------------------------------------------------------------------------
(* The SQL statements *)

Row(table_name, key, response_json, fetched_at, expires_at) ==
    [table |-> table_name, key |-> key, response_json |-> response_json,
     fetched_at |-> fetched_at, expires_at |-> expires_at]

\* Rows of table_name whose primary-key columns equal key.
SamePk(rws, table_name, key) ==
    {r \in rws : r.table = table_name /\ r.key = key}

\* A plain INSERT that keeps the row already stored under the key.
InsertKeepingOld(rws, r) == rws \cup {r}

\* INSERT OR REPLACE INTO table (...) VALUES (...): the primary key makes the
\* new row replace the row with the same key.
InsertOrReplace(rws, r) ==
    (rws \ SamePk(rws, r.table, r.key)) \cup {r}

\* The SELECT with "expires_at > ?": a row is dropped in its last valid second.
SelectValidStrict(rws, table_name, kwargs, now_s) ==
    {r \in rws : /\ r.table = table_name
                 /\ \A k \in DOMAIN kwargs : r.key[k] = kwargs[k]
                 /\ r.expires_at > now_s}

\* SELECT response_json FROM table WHERE k1 = ? AND ... AND expires_at >= ?
SelectValid(rws, table_name, kwargs, now_s) ==
    {r \in rws : /\ r.table = table_name
                 /\ \A k \in DOMAIN kwargs : r.key[k] = kwargs[k]
                 /\ r.expires_at >= now_s}

----------------------------------------------------------------------------
(* sqlite_cache.py: get_cached, put_cached *)

Outcome(status, result, io, rws) ==
    [status |-> status, result |-> result, io |-> io, rows |-> rws]

\* The column check left out: every keyword reaches the SQL statement.
ValidColumnsUnchecked(table_name, kwargs) == TRUE

\* for key in kwargs: if key not in valid_columns: raise ValueError
ValidColumns(table_name, kwargs) ==
    \A key \in DOMAIN kwargs : key \in VALID_TABLES[table_name]

\* One that sweeps the expired rows of the table out as it reads.
get_cached_sweeping(table_name, kwargs, rws, now_s) ==
    IF table_name \notin DOMAIN VALID_TABLES
    THEN Outcome("ValueError", None, FALSE, rws)
    ELSE IF ~ValidColumns(table_name, kwargs)
    THEN Outcome("ValueError", None, FALSE, rws)
    ELSE IF ~(DOMAIN kwargs \subseteq VALID_TABLES[table_name]) \/ DOMAIN kwargs = {}
    THEN Outcome("sqlite3.Error", None, TRUE, rws)
    ELSE LET found == SelectValid(rws, table_name, kwargs, now_s)
             kept == {r \in rws : r.table # table_name \/ r.expires_at >= now_s}
         IN  IF found = {}
             THEN Outcome("ok", None, TRUE, kept)
             ELSE Outcome("ok", json_loads((CHOOSE r \in found : TRUE).response_json),
                          TRUE, kept)

get_cached(table_name, kwargs, rws, now_s) ==
    IF table_name \notin DOMAIN VALID_TABLES
    THEN Outcome("ValueError", None, FALSE, rws)
    ELSE IF ~ValidColumns(table_name, kwargs)
    THEN Outcome("ValueError", None, FALSE, rws)
    ELSE IF ~(DOMAIN kwargs \subseteq VALID_TABLES[table_name]) \/ DOMAIN kwargs = {}
    THEN Outcome("sqlite3.Error", None, TRUE, rws)
    ELSE LET found == SelectValid(rws, table_name, kwargs, now_s)
         IN  IF found = {}
             THEN Outcome("ok", None, TRUE, rws)
             ELSE Outcome("ok", json_loads((CHOOSE r \in found : TRUE).response_json),
                          TRUE, rws)

put_cached(table_name, payload, fetched_at_s, kwargs, rws) ==
    IF table_name \notin DOMAIN VALID_TABLES \/ table_name \notin DOMAIN TABLE_TTL_S
    THEN Outcome("ValueError", None, FALSE, rws)
    ELSE IF ~ValidColumns(table_name, kwargs)
    THEN Outcome("ValueError", None, FALSE, rws)
    ELSE IF DOMAIN kwargs # VALID_TABLES[table_name]
    THEN Outcome("sqlite3.Error", None, TRUE, rws)
    ELSE LET ttl_s == TABLE_TTL_S[table_name]
             json_dump == json_dumps_default_str(payload)
             expires_at_s == fetched_at_s + ttl_s
         IN  Outcome("ok", None, TRUE,
                     InsertOrReplace(rws, Row(table_name, kwargs, json_dump,
                                              fetched_at_s, expires_at_s)))

----------------------------------------------------------------------------
(* primitives.py: Coordinate.round_decimals; sqlite_cache.py: _round_coordinate *)

\* round(x, ndigits=4) of a value with five decimals: the nearest multiple of
\* 10 units, a tie going to the even fourth decimal.
RoundAxis(x) ==
    LET lo == (x \div 10) * 10
        rem == x - lo
    IN  IF rem < 5 THEN lo
        ELSE IF rem > 5 THEN lo + 10
        ELSE IF (lo \div 10) % 2 = 0 THEN lo ELSE lo + 10

\* One that cuts the digits after the fourth decimal instead of rounding.
round_decimals_cut(coord) ==
    LET Cut(x) == IF x >= 0 THEN (x \div 10) * 10 ELSE -(((-x) \div 10) * 10)
    IN  <<Cut(coord[1]), Cut(coord[2])>>

round_decimals(coord) == <<RoundAxis(coord[1]), RoundAxis(coord[2])>>

_round_coordinate(coord) == <<RoundAxis(coord[1]), RoundAxis(coord[2])>>

----------------------------------------------------------------------------
(* sqlite_cache.py: the typed accessors *)

get_cached_nearby_hotspots(coord, distance_km, rws, now_s) ==
    LET r_coord == _round_coordinate(coord)
        found == SelectValid(rws, "nearby_hotspots_cache",
                             [lat_round |-> r_coord[1], lng_round |-> r_coord[2],
                              dist_km |-> distance_km], now_s)
    IN  IF found = {}
        THEN Outcome("ok", None, TRUE, rws)
        ELSE Outcome("ok", json_loads((CHOOSE r \in found : TRUE).response_json), TRUE, rws)

put_cached_nearby_hotspots(coord, distance_km, payload, fetched_at_s, rws) ==
    LET r_coord == _round_coordinate(coord)
        expires_at_s == fetched_at_s + HOTSPOT_TTL_S
    IN  IF ~JsonEncodable(payload)
        THEN Outcome("TypeError", None, FALSE, rws)
        ELSE Outcome("ok", None, TRUE,
                 InsertOrReplace(rws,
                     Row("nearby_hotspots_cache",
                         [lat_round |-> r_coord[1], lng_round |-> r_coord[2],
                          dist_km |-> distance_km],
                         json_dumps(payload), fetched_at_s, expires_at_s)))

get_cached_geocode(query, rws, now_s) ==
    get_cached("geocode_cache", [provider |-> "Nominatim", query |-> query], rws, now_s)

put_cached_geocode(query, payload, fetched_at_s, rws) ==
    put_cached("geocode_cache", payload, fetched_at_s,
               [provider |-> "Nominatim", query |-> query], rws)

get_cached_species_list(area_code, rws, now_s) ==
    get_cached("species_list_cache", [area_code |-> area_code], rws, now_s)

put_cached_species_list(area_code, payload, fetched_at_s, rws) ==
    LET expires_at_s == fetched_at_s + SPECIES_LIST_TTL_S
    IN  IF ~JsonEncodable(payload)
        THEN Outcome("TypeError", None, FALSE, rws)
        ELSE Outcome("ok", None, TRUE,
                 InsertOrReplace(rws,
                     Row("species_list_cache", [area_code |-> area_code],
                         json_dumps(payload), fetched_at_s, expires_at_s)))

get_cached_taxonomy_entry(species_id, rws, now_s) ==
    get_cached("species_taxonomy_cache", [species_id |-> species_id], rws, now_s)

put_cached_taxonomy_entry(species_id, payload, fetched_at_s, rws) ==
    LET expires_at_s == fetched_at_s + SPECIES_TAXONOMY_TTL_S
    IN  IF ~JsonEncodable(payload)
        THEN Outcome("TypeError", None, FALSE, rws)
        ELSE Outcome("ok", None, TRUE,
                 InsertOrReplace(rws,
                     Row("species_taxonomy_cache", [species_id |-> species_id],
                         json_dumps(payload), fetched_at_s, expires_at_s)))

get_cached_photo_observations(taxon_name, day_of_month, rws, now_s) ==
    LET found == SelectValid(rws, "observation_photos_cache",
                             [taxon_name |-> taxon_name, day_of_month |-> day_of_month],
                             now_s)
    IN  IF found = {}
        THEN Outcome("ok", None, TRUE, rws)
        ELSE Outcome("ok", json_loads((CHOOSE r \in found : TRUE).response_json), TRUE, rws)

put_cached_photo_observations(taxon_name, day_of_month, payload, fetched_at_s, rws) ==
    LET expires_at_s == fetched_at_s + PHOTO_OBSERVATIONS_TTL_S
    IN  Outcome("ok", None, TRUE,
            InsertOrReplace(rws,
                Row("observation_photos_cache",
                    [taxon_name |-> taxon_name, day_of_month |-> day_of_month],
                    json_dumps_default_str(payload), fetched_at_s, expires_at_s)))

get_cached_region_info(region_code, rws, now_s) ==
    get_cached("region_info_cache", [region_code |-> region_code], rws, now_s)

put_cached_region_info(region_code, payload, fetched_at_s, rws) ==
    put_cached("region_info_cache", payload, fetched_at_s,
               [region_code |-> region_code], rws)

----------------------------------------------------------------------------
(* The inputs the model draws: a few arguments, keys and payloads per table *)

EmptyList == [shape |-> "list", items |-> <<>>]

\* The arguments of the typed accessor of each table.
SampleArgs(table_name) ==
    CASE table_name = "nearby_hotspots_cache" ->
           { [coord |-> c, distance_km |-> d] :
               c \in { <<4497932, -9326384>>, <<4497934, -9326383>> }, d \in {0} }
           \cup { [coord |-> <<4497937, -9326384>>, distance_km |-> 0] }
      [] table_name = "geocode_cache" ->
           { [query |-> q] : q \in {"Minneapolis, MN", "Providence, RI"} }
      [] table_name = "species_list_cache" ->
           { [area_code |-> a] : a \in {"US-MN", "US-RI"} }
      [] table_name = "species_taxonomy_cache" ->
           { [species_id |-> s] : s \in {"amerob", "bkcchi"} }
      [] table_name = "observation_photos_cache" ->
           { [taxon_name |-> "Turdus", day_of_month |-> d] : d \in {1, 2} }
      [] table_name = "region_info_cache" ->
           { [region_code |-> r] : r \in {"US", "US-MN"} }
      [] table_name = "hotspots_in_region_cache" ->
           { [region_code |-> r] : r \in {"US", "US-MN"} }

\* The key columns the call sites derive from those arguments.
KeyOf(table_name, args) ==
    CASE table_name = "nearby_hotspots_cache" ->
           [lat_round |-> round_decimals(args.coord)[1],
            lng_round |-> round_decimals(args.coord)[2],
            dist_km   |-> args.distance_km]
      [] table_name = "geocode_cache" ->
           [provider |-> "Nominatim", query |-> args.query]
      [] OTHER -> args

SampleKeys(table_name) == { KeyOf(table_name, a) : a \in SampleArgs(table_name) }

\* Keyword arguments naming a column the table does not have.
BadKwargs(table_name) ==
    { [bogus |-> 1] }
    \cup (IF table_name = "geocode_cache"
          THEN { [provider |-> "Nominatim", region_code |-> "US"] }
          ELSE { [provider |-> "Nominatim", query |-> "Minneapolis, MN"] })

\* The time to live the code applies when it writes a row of the table:
\* put_cached takes it from TABLE_TTL_S, the typed puts from their default.
TtlApplied(table_name) ==
    CASE table_name \in DOMAIN TABLE_TTL_S -> TABLE_TTL_S[table_name]
      [] table_name = "nearby_hotspots_cache" -> HOTSPOT_TTL_S
      [] table_name = "species_list_cache" -> SPECIES_LIST_TTL_S
      [] table_name = "species_taxonomy_cache" -> SPECIES_TAXONOMY_TTL_S
      [] table_name = "observation_photos_cache" -> PHOTO_OBSERVATIONS_TTL_S

\* The instants a run visits: the first seconds, and the seconds around the
\* expiry of a row of the focused table written in those first seconds.
Instants ==
    (0..MaxSkew) \cup (TtlApplied(focus)..(TtlApplied(focus) + MaxSkew))

\* fetched_at_s is a reading of the clock taken at or before the call.
FetchedAtInputs == {t \in Instants : t <= now}

StorePayloads ==
    { [shape |-> "list", items |-> << [kind |-> "int", v |-> 7] >>],
      [shape |-> "dict", items |-> << [kind |-> "datetime", v |-> 9] >>] }

KwargsInputs == SampleKeys(focus) \cup BadKwargs(focus)

GetInputs ==
    { <<focus, k>> : k \in KwargsInputs }
    \cup { <<"no_such_cache", k>> : k \in SampleKeys(focus) }

PutInputs ==
    { <<focus, k, p, f>> : k \in SampleKeys(focus), p \in StorePayloads,
                           f \in FetchedAtInputs }
    \cup { <<focus, k, EmptyList, now>> : k \in BadKwargs(focus) }
    \cup { <<"no_such_cache", k, EmptyList, now>> : k \in SampleKeys(focus) }

----------------------------------------------------------------------------
(* A run against the store: calls of the store API, and time passing *)

\* taxonomies.py: the nodes of a taxonomy, each with its name and the dict of
\* its children (a function from the keys to the nodes).
TaxonomicSpecies(specific_name) == [specific_name |-> specific_name]

TaxonomicGenus(generic_name) == [generic_name |-> generic_name, species |-> <<>>]

TaxonomicFamily(family_name) == [family_name |-> family_name, genera |-> <<>>]

TaxonomicOrder(order_name) == [order_name |-> order_name, families |-> <<>>]

TaxonomicClass(class_name) == [class_name |-> class_name, orders |-> <<>>]

\* No species inserted yet.
NoTaxa == [tree |-> TaxonomicClass("Aves"), inserted |-> {}]

NoHotspot == [kind |-> "None"]

IdleSearch ==
    [pc |-> "idle", coord |-> <<0, 0>>, dist_km |-> 0, hotspots |-> <<>>,
     probes |-> <<>>, sizes |-> <<>>,
     from_empty |-> FALSE, svc_empty |-> TRUE, measured_from |-> <<0, 0>>,
     result |-> NoHotspot, error |-> ""]

NoCode == [kind |-> "None"]

IdleRegion ==
    [pc |-> "idle", searched |-> FALSE, nearest |-> NoHotspot, codes |-> <<>>,
     r_infos |-> <<>>, scores |-> <<>>, lookups |-> 0, live |-> 0,
     result |-> NoCode, error |-> ""]

IdleCall ==
    [pc |-> "idle", args |-> <<>>, hit |-> FALSE, reads |-> 0, fetch_arg |-> <<>>,
     payload |-> None, fetched_at |-> 0, live |-> 0, failures |-> 0, slept |-> 0,
     wrote |-> 0,
     species_map |-> <<>>, error |-> "", ret |-> None]

LastNone ==
    [op |-> "none", table |-> "", kwargs |-> <<>>, payload |-> None, fetched_at |-> 0,
     status |-> "", result |-> None, io |-> FALSE, prior |-> 0]

InitStore ==
    /\ focus \in SCHEMA_TABLES
    /\ rows = {}
    /\ now = 0
    /\ last = LastNone
    /\ call = IdleCall
    /\ search = IdleSearch
    /\ region = IdleRegion
    /\ tables = SCHEMA_TABLES
    /\ taxa = NoTaxa

Call_get_cached(table_name, kwargs) ==
    LET out == get_cached(table_name, kwargs, rows, now)
    IN  /\ rows' = out.rows
        /\ last' = [op |-> "get", table |-> table_name, kwargs |-> kwargs,
                    payload |-> None, fetched_at |-> 0, status |-> out.status,
                    result |-> out.result, io |-> out.io, prior |-> 0]
        /\ UNCHANGED <<focus, now, call, search, region, tables, taxa>>

Call_put_cached(table_name, kwargs, payload, fetched_at_s) ==
    LET out == put_cached(table_name, payload, fetched_at_s, kwargs, rows)
    IN  /\ rows' = out.rows
        /\ last' = [op |-> "put", table |-> table_name, kwargs |-> kwargs,
                    payload |-> payload, fetched_at |-> fetched_at_s,
                    status |-> out.status, result |-> None, io |-> out.io,
                    prior |-> Cardinality(SamePk(rows, table_name, kwargs))]
        /\ UNCHANGED <<focus, now, call, search, region, tables, taxa>>

\* The typed put of the focused table, for the tables that have one with its
\* own SQL statement.
put_typed(table_name, args, payload, fetched_at_s, rws) ==
    CASE table_name = "nearby_hotspots_cache" ->
           put_cached_nearby_hotspots(args.coord, args.distance_km, payload,
                                      fetched_at_s, rws)
      [] table_name = "species_list_cache" ->
           put_cached_species_list(args.area_code, payload, fetched_at_s, rws)
      [] table_name = "species_taxonomy_cache" ->
           put_cached_taxonomy_entry(args.species_id, payload, fetched_at_s, rws)
      [] table_name = "observation_photos_cache" ->
           put_cached_photo_observations(args.taxon_name, args.day_of_month, payload,
                                         fetched_at_s, rws)
      [] table_name = "geocode_cache" ->
           put_cached_geocode(args.query, payload, fetched_at_s, rws)
      [] table_name = "region_info_cache" ->
           put_cached_region_info(args.region_code, payload, fetched_at_s, rws)

TYPED_PUT_TABLES ==
    {"nearby_hotspots_cache", "species_list_cache", "species_taxonomy_cache",
     "observation_photos_cache", "geocode_cache", "region_info_cache"}

Call_put_typed(args, payload, fetched_at_s) ==
    /\ focus \in TYPED_PUT_TABLES
    /\ LET out == put_typed(focus, args, payload, fetched_at_s, rows)
       IN  /\ rows' = out.rows
           /\ last' = [op |-> "put_typed", table |-> focus,
                       kwargs |-> KeyOf(focus, args),
                       payload |-> payload, fetched_at |-> fetched_at_s,
                       status |-> out.status, result |-> None, io |-> out.io,
                       prior |-> Cardinality(SamePk(rows, focus, KeyOf(focus, args)))]
    /\ UNCHANGED <<focus, now, call, search, region, tables, taxa>>

Tick(t) ==
    /\ t > now
    /\ now' = t
    /\ UNCHANGED <<focus, rows, last, call, search, region, tables, taxa>>

----------------------------------------------------------------------------
(* sqlite_cache.py: get_conn and init_db, on a file that may lack tables *)

\* A script that drops each table before creating it.
init_db_recreate(tbls, rws) ==
    [tables |-> SCHEMA_TABLES, rows |-> {}]

\* conn.executescript of seven CREATE TABLE IF NOT EXISTS: the missing tables
\* are made, empty; a table that exists is left as it is.
init_db(tbls, rws) ==
    [tables |-> tbls \cup SCHEMA_TABLES, rows |-> rws]

\* get_conn has made the file if it was missing; it holds no table, or the
\* focused one only.
InitFile ==
    /\ focus \in SCHEMA_TABLES
    /\ rows = {}
    /\ now = 0
    /\ last = LastNone
    /\ call = IdleCall
    /\ search = IdleSearch
    /\ region = IdleRegion
    /\ tables \in {{}, {focus}}
    /\ taxa = NoTaxa

Call_init_db ==
    /\ tables' = init_db(tables, rows).tables
    /\ rows' = init_db(tables, rows).rows
    /\ last' = [LastNone EXCEPT !.op = "init_db", !.status = "ok", !.io = TRUE,
                                !.prior = Cardinality(tables)]
    /\ UNCHANGED <<focus, now, call, search, region, taxa>>

\* The statement of a store call fails on a table the file does not have:
\* sqlite3.OperationalError, no such table.
NoSuchTable(op, table_name, kwargs) ==
    /\ last' = [LastNone EXCEPT !.op = op, !.table = table_name, !.kwargs = kwargs,
                                !.status = "sqlite3.Error", !.io = TRUE]
    /\ UNCHANGED <<focus, rows, now, call, search, region, tables, taxa>>

File_get_cached(kwargs) ==
    IF focus \in tables
    THEN Call_get_cached(focus, kwargs)
    ELSE NoSuchTable("get", focus, kwargs)

File_put_cached(kwargs, payload, fetched_at_s) ==
    IF focus \in tables \/ focus \notin DOMAIN TABLE_TTL_S
    THEN Call_put_cached(focus, kwargs, payload, fetched_at_s)
    ELSE NoSuchTable("put", focus, kwargs)

File_put_typed(args, payload, fetched_at_s) ==
    IF focus \in tables
    THEN Call_put_typed(args, payload, fetched_at_s)
    ELSE /\ focus \in TYPED_PUT_TABLES
         /\ NoSuchTable("put_typed", focus, KeyOf(focus, args))

NextFile ==
    \/ Call_init_db
    \/ \E k \in SampleKeys(focus) : File_get_cached(k)
    \/ \E k \in SampleKeys(focus), p \in StorePayloads : File_put_cached(k, p, now)
    \/ \E a \in SampleArgs(focus), p \in StorePayloads : File_put_typed(a, p, now)

SpecFile == InitFile /\ [][NextFile]_vars

NextStore ==
    \/ \E g \in GetInputs : Call_get_cached(g[1], g[2])
    \/ \E i \in PutInputs : Call_put_cached(i[1], i[2], i[3], i[4])
    \/ \E a \in SampleArgs(focus), p \in StorePayloads, f \in FetchedAtInputs :
          Call_put_typed(a, p, f)
    \/ \E t \in Instants : Tick(t)

SpecStore == InitStore /\ [][NextStore]_vars

----------------------------------------------------------------------------
(* The external services, as the values they may return *)

\* A hotspot record of the eBird API; d is its geodesic distance from the
\* coordinate the query was made for.
\* "" stands for a key the record does not have.
HotspotJson(id, d) ==
    [kind |-> "hotspot", locId |-> id, d |-> d,
     countryCode |-> "US",
     subnational1Code |-> IF id = "L3" THEN "" ELSE "US-MN",
     subnational2Code |-> IF id = "L1" THEN "US-MN-053" ELSE ""]

\* A taxonomy entry of the eBird API; speciesCode "" stands for an entry
\* that has no "speciesCode" key.
TaxonJson(code) ==
    [shape |-> "dict", items |-> << [kind |-> "taxon", speciesCode |-> code] >>]

ListOf(items) == [shape |-> "list", items |-> items]

DictOf(item) == [shape |-> "dict", items |-> << item >>]

\* The name eBird gives for a region code.
RegionName(region_code) ==
    CASE region_code = "US" -> "United States"
      [] region_code = "US-MN" -> "Minnesota, United States"
      [] region_code = "US-MN-053" -> "Hennepin, Minnesota, United States"
      [] OTHER -> region_code

\* What a live call may return for the focused table's query.
LiveResponses(table_name, fetch_arg) ==
    CASE table_name \in {"nearby_hotspots_cache", "hotspots_in_region_cache"} ->
           { EmptyList,
             ListOf(<< HotspotJson("L1", 8) >>),
             ListOf(<< HotspotJson("L1", 8), HotspotJson("L2", 3) >>) }
      [] table_name = "region_info_cache" ->
           { DictOf([kind |-> "region", code |-> fetch_arg,
                     result |-> RegionName(fetch_arg)]) }
      [] table_name = "species_list_cache" ->
           { EmptyList, ListOf(<< [kind |-> "str", v |-> 1] >>) }
      [] table_name = "species_taxonomy_cache" ->
           { ListOf(<<>>) }
           \cup { ListOf(<< TaxonJson(c) >>) : c \in {"amerob", "bkcchi", ""} }
           \cup { ListOf(<< TaxonJson(fetch_arg[1]), TaxonJson(c) >>) :
                    c \in {"bkcchi", "norcar", ""} }
           \cup { ListOf(<< TaxonJson(""), TaxonJson(fetch_arg[1]) >>) }
      [] table_name = "geocode_cache" ->
           { None, DictOf([kind |-> "place", lat |-> 4497932, lon |-> -9326384]) }
      [] table_name = "observation_photos_cache" ->
           { DictOf([kind |-> "datetime", v |-> 9]), DictOf([kind |-> "int", v |-> 0]) }

\* The arguments of the retrieval function of each table.
CallArgs(table_name) ==
    IF table_name = "species_taxonomy_cache"
    THEN { [species_codes |-> c] :
             c \in { <<"amerob">>, <<"amerob", "bkcchi">>, <<"bkcchi", "amerob">> } }
    ELSE SampleArgs(table_name)

\* What a row of the table holds when the service's answer was stored.
SeedPayloads(table_name, args) ==
    IF table_name = "species_taxonomy_cache"
    THEN { TaxonJson(args.species_id) }
    ELSE IF table_name = "region_info_cache"
    THEN LiveResponses(table_name, args.region_code)
    ELSE LiveResponses(table_name, args) \ {None}

----------------------------------------------------------------------------
(* ebird_api.py, geocoding.py, inaturalist.py: cache or fetch *)

EBirdHotspot_from_json(data) ==
    [kind |-> "EBirdHotspot", id |-> data.locId, d |-> data.d,
     country_code |-> data.countryCode,
     subnat1_code |-> data.subnational1Code,
     subnat2_code |-> data.subnational2Code]

EBirdSpecies_from_json(data) ==
    [kind |-> "EBirdSpecies", ebird_species_code |-> data.items[1].speciesCode]

\* What the retrieval function hands back for a payload.
Returned(table_name, payload) ==
    IF table_name \in {"nearby_hotspots_cache", "hotspots_in_region_cache"}
    THEN [i \in 1..Len(payload.items) |-> EBirdHotspot_from_json(payload.items[i])]
    ELSE payload

\* The read that opens each retrieval function.
CachedRead(table_name, args, rws, now_s) ==
    CASE table_name = "nearby_hotspots_cache" ->
           get_cached("nearby_hotspots_cache",
                      [lat_round |-> round_decimals(args.coord)[1],
                       lng_round |-> round_decimals(args.coord)[2],
                       dist_km   |-> args.distance_km], rws, now_s)
      [] table_name = "region_info_cache" ->
           get_cached("region_info_cache", [region_code |-> args.region_code], rws, now_s)
      [] table_name = "hotspots_in_region_cache" ->
           get_cached("hotspots_in_region_cache", [region_code |-> args.region_code],
                      rws, now_s)
      [] table_name = "species_list_cache" ->
           get_cached("species_list_cache", [area_code |-> args.area_code], rws, now_s)
      [] table_name = "species_taxonomy_cache" ->
           get_cached("species_taxonomy_cache", [species_id |-> args.species_id],
                      rws, now_s)
      [] table_name = "geocode_cache" ->
           get_cached_geocode(args.query, rws, now_s)
      [] table_name = "observation_photos_cache" ->
           get_cached_photo_observations(args.taxon_name, args.day_of_month, rws, now_s)

\* One that takes an empty answer for no answer ("if not payload").
IsMissFalsy(cached) == cached = None \/ cached.items = <<>>

\* "if payload is None": only None is a miss, an empty list is a hit.
IsMiss(cached) == cached = None

\* The write that follows a live call.
CacheWrite(table_name, args, payload, fetched_at_s, rws) ==
    CASE table_name = "nearby_hotspots_cache" ->
           put_cached("nearby_hotspots_cache", payload, fetched_at_s,
                      [lat_round |-> round_decimals(args.coord)[1],
                       lng_round |-> round_decimals(args.coord)[2],
                       dist_km   |-> args.distance_km], rws)
      [] table_name = "region_info_cache" ->
           put_cached("region_info_cache", payload, fetched_at_s,
                      [region_code |-> args.region_code], rws)
      [] table_name = "hotspots_in_region_cache" ->
           put_cached("hotspots_in_region_cache", payload, fetched_at_s,
                      [region_code |-> args.region_code], rws)
      [] table_name = "species_list_cache" ->
           put_cached("species_list_cache", payload, fetched_at_s,
                      [area_code |-> args.area_code], rws)
      [] table_name = "species_taxonomy_cache" ->
           put_cached("species_taxonomy_cache", payload, fetched_at_s,
                      [species_id |-> args.species_id], rws)
      [] table_name = "geocode_cache" ->
           put_cached_geocode(args.query, payload, fetched_at_s, rws)
      [] table_name = "observation_photos_cache" ->
           put_cached_photo_observations(args.taxon_name, args.day_of_month, payload,
                                         fetched_at_s, rws)

\* time.sleep(1) follows the live call in every retrieval function but
\* retrieve_photo_observations.
PacesAfterFetch(table_name) == table_name # "observation_photos_cache"

\* A live nearby-hotspots call given the rounded coordinate.
FetchArgRounded(table_name, args) ==
    CASE table_name = "region_info_cache" -> args.region_code
      [] table_name = "nearby_hotspots_cache" ->
           [args EXCEPT !.coord = round_decimals(args.coord)]
      [] OTHER -> args

\* What the live call is given: the caller's own arguments.
FetchArg(table_name, args) ==
    CASE table_name = "region_info_cache" -> args.region_code
      [] OTHER -> args

\* species_map after the reads: one get_cached per requested code.
ReadTaxons(species_codes, rws, now_s) ==
    [code \in {species_codes[i] : i \in 1..Len(species_codes)} |->
        LET cached == CachedRead("species_taxonomy_cache", [species_id |-> code],
                                 rws, now_s).result
        IN  IF cached = None THEN None ELSE EBirdSpecies_from_json(cached)]

\* The keys of a dict in insertion order: the codes, each at its first place.
RECURSIVE DictKeys(_, _)
DictKeys(species_codes, i) ==
    IF i = 0 THEN <<>>
    ELSE LET before == DictKeys(species_codes, i - 1)
         IN  IF \E j \in 1..Len(before) : before[j] = species_codes[i]
             THEN before
             ELSE Append(before, species_codes[i])

\* One that asks the service for every requested code, cached or not.
MissingSpeciesAll(species_codes, species_map) ==
    DictKeys(species_codes, Len(species_codes))

\* [code for code, data in species_map.items() if data is None]
MissingSpecies(species_codes, species_map) ==
    LET keys == DictKeys(species_codes, Len(species_codes))
        Unresolved(code) == species_map[code] = None
    IN  SelectSeq(keys, Unresolved)

\* for raw_data in payload: skip an entry without a species code, store the
\* others under the code they carry; an exception of put_cached ends the loop.
RECURSIVE StoreTaxons(_, _, _, _, _, _)
StoreTaxons(entries, i, fetched_at_s, rws, species_map, wrote) ==
    IF i > Len(entries)
    THEN [status |-> "ok", rows |-> rws, species_map |-> species_map, wrote |-> wrote]
    ELSE LET raw_data == entries[i]
             s_code == raw_data.items[1].speciesCode
         IN  IF s_code = ""
             THEN StoreTaxons(entries, i + 1, fetched_at_s, rws, species_map, wrote)
             ELSE LET out == CacheWrite("species_taxonomy_cache", [species_id |-> s_code],
                                        raw_data, fetched_at_s, rws)
                  IN  IF out.status # "ok"
                      THEN [status |-> out.status, rows |-> rws,
                            species_map |-> species_map, wrote |-> wrote]
                      ELSE StoreTaxons(entries, i + 1, fetched_at_s, out.rows,
                               [c \in DOMAIN species_map \cup {s_code} |->
                                   IF c = s_code THEN EBirdSpecies_from_json(raw_data)
                                   ELSE species_map[c]],
                               wrote + 1)

\* output_data, and the assertion that every requested code is in it.
OutputData(species_map) ==
    [c \in {k \in DOMAIN species_map : species_map[k] # None} |-> species_map[c]]

AllResolved(species_codes, species_map) ==
    \A i \in 1..Len(species_codes) : species_codes[i] \in DOMAIN OutputData(species_map)

\* The end of retrieve_species_taxons, from species_map.
FinishTaxons(c, species_map) ==
    IF AllResolved(c.args.species_codes, species_map)
    THEN [c EXCEPT !.pc = "done", !.species_map = species_map,
                   !.ret = OutputData(species_map)]
    ELSE [c EXCEPT !.pc = "raised", !.species_map = species_map,
                   !.error = "AssertionError"]

\* The frame after the call's read of the cache; on a miss the clock is read
\* for fetched_at_s and the live call is next.
Begun(args) ==
    IF focus = "species_taxonomy_cache"
    THEN LET species_map == ReadTaxons(args.species_codes, rows, now)
             missing_species == MissingSpecies(args.species_codes, species_map)
             c == [IdleCall EXCEPT !.args = args, !.reads = Len(args.species_codes)]
         IN  IF missing_species = <<>>
             THEN FinishTaxons([c EXCEPT !.hit = TRUE], species_map)
             ELSE [c EXCEPT !.pc = "fetch", !.species_map = species_map,
                            !.fetch_arg = missing_species, !.fetched_at = now]
    ELSE LET cached == CachedRead(focus, args, rows, now).result
             c == [IdleCall EXCEPT !.args = args, !.reads = 1]
         IN  IF IsMiss(cached)
             THEN [c EXCEPT !.pc = "fetch", !.fetch_arg = FetchArg(focus, args),
                            !.fetched_at = now]
             ELSE [c EXCEPT !.pc = "done", !.hit = TRUE,
                            !.ret = Returned(focus, cached)]

\* A caller calls the retrieval function of the focused table.
Begin(args) ==
    /\ call.pc = "idle"
    /\ search.pc = "idle"
    /\ now \in Instants
    /\ call' = Begun(args)
    /\ UNCHANGED <<focus, rows, now, last, search, region, tables, taxa>>

\* The live call returns.
LiveFetch ==
    /\ call.pc = "fetch"
    /\ \E response \in LiveResponses(focus, call.fetch_arg) :
          call' = [call EXCEPT !.pc = IF PacesAfterFetch(focus) THEN "sleep" ELSE "put",
                               !.live = @ + 1,
                               !.payload = response]
    /\ UNCHANGED <<focus, rows, now, last, search, region, tables, taxa>>

\* The exception of the live call caught and an empty answer stored in its
\* place.
LiveFetchFailsSwallowed ==
    /\ call.pc = "fetch"
    /\ call' = [call EXCEPT !.pc = IF PacesAfterFetch(focus) THEN "sleep" ELSE "put",
                            !.live = @ + 1, !.failures = @ + 1,
                            !.payload = EmptyList]
    /\ UNCHANGED <<focus, rows, now, last, search, region, tables, taxa>>

\* The live call raises: nothing catches it.
LiveFetchFails ==
    /\ call.pc = "fetch"
    /\ call' = [call EXCEPT !.pc = "raised", !.live = @ + 1, !.failures = @ + 1,
                            !.error = "FetchError"]
    /\ UNCHANGED <<focus, rows, now, last, search, region, tables, taxa>>

\* time.sleep(1)
Sleep ==
    /\ call.pc = "sleep"
    /\ now' = now + 1
    /\ call' = [call EXCEPT !.pc = "put", !.slept = @ + 1]
    /\ UNCHANGED <<focus, rows, last, search, region, tables, taxa>>

\* A geocoder whose empty answer is stored like any other.
LocationIsNoneNever(location) == FALSE

\* "if location is None": the geocoder found nothing.
LocationIsNone(location) == location = None

\* What follows the pause: the write to the cache and the return.
StoreAndReturn ==
    /\ call.pc = "put"
    /\ IF focus = "species_taxonomy_cache"
       THEN LET res == StoreTaxons(call.payload.items, 1, call.fetched_at, rows,
                                   call.species_map, 0)
            IN  /\ rows' = res.rows
                /\ call' = IF res.status # "ok"
                           THEN [call EXCEPT !.pc = "raised", !.error = res.status,
                                             !.wrote = res.wrote,
                                             !.species_map = res.species_map]
                           ELSE FinishTaxons([call EXCEPT !.wrote = res.wrote],
                                             res.species_map)
       ELSE IF focus = "geocode_cache" /\ LocationIsNone(call.payload)
       THEN /\ rows' = rows
            /\ call' = [call EXCEPT !.pc = "done", !.ret = None]
       ELSE LET out == CacheWrite(focus, call.args, call.payload, call.fetched_at, rows)
            IN  /\ rows' = out.rows
                /\ call' = IF out.status # "ok"
                           THEN [call EXCEPT !.pc = "raised", !.error = out.status]
                           ELSE [call EXCEPT !.pc = "done", !.wrote = 1,
                                             !.ret = Returned(focus, call.payload)]
    /\ UNCHANGED <<focus, now, last, search, region, tables, taxa>>

\* Coordinate.from_geocode_data: the place's own latitude and longitude.
Coordinate_from_geocode_data(data) ==
    [kind |-> "Coordinate", lat |-> data.items[1].lat, lon |-> data.items[1].lon]

\* find_coordinate, given what retrieve_geocode returned.
find_coordinate(raw_data) ==
    IF raw_data = None THEN None ELSE Coordinate_from_geocode_data(raw_data)

\* The caller has the result, or the exception, and may call again.
Return ==
    /\ call.pc \in {"done", "raised"}
    /\ search.pc = "idle"
    /\ call' = IdleCall
    /\ UNCHANGED <<focus, rows, now, last, search, region, tables, taxa>>

\* Another user of the cache module stores an answer through a typed put.
OtherPutTyped(args, payload, fetched_at_s) ==
    /\ call.pc = "idle"
    /\ search.pc = "idle"
    /\ focus \in TYPED_PUT_TABLES
    /\ rows' = put_typed(focus, args, payload, fetched_at_s, rows).rows
    /\ UNCHANGED <<focus, now, last, call, search, region, tables, taxa>>

Passes(t) ==
    /\ call.pc = "idle"
    /\ search.pc = "idle"
    /\ Tick(t)

NextOrch ==
    \/ \E a \in CallArgs(focus) : Begin(a)
    \/ LiveFetch
    \/ LiveFetchFails
    \/ Sleep
    \/ StoreAndReturn
    \/ Return
    \/ \E a \in SampleArgs(focus) :
          \E p \in SeedPayloads(focus, a) : OtherPutTyped(a, p, now)
    \/ \E t \in Instants : Passes(t)

SpecOrch == InitStore /\ [][NextOrch]_vars

----------------------------------------------------------------------------
(* Two processes running the same retrieval function on one store file *)

\* Each process has its own frame; a get_cached or put_cached call is one
\* statement in its own connection and transaction, so one step.
Procs == {1, 2}

PAIR_TABLES == SCHEMA_TABLES \ {"species_taxonomy_cache"}

\* The arguments that derive the one key the two processes work on.
PairKey == KeyOf(focus, CHOOSE a \in CallArgs(focus) : TRUE)

PairArgs == {a \in CallArgs(focus) : KeyOf(focus, a) = PairKey}

InitPair ==
    /\ focus \in PAIR_TABLES
    /\ rows = {}
    /\ now = 0
    /\ last = LastNone
    /\ call = [p \in Procs |-> IdleCall]
    /\ search = IdleSearch
    /\ region = IdleRegion
    /\ tables = SCHEMA_TABLES
    /\ taxa = NoTaxa

\* Process p calls the retrieval function: its read of the cache.
PBegin(p, args) ==
    /\ call[p].pc = "idle"
    /\ now <= MaxSkew
    /\ call' = [call EXCEPT ![p] = Begun(args)]
    /\ UNCHANGED <<focus, rows, now, last, search, region, tables, taxa>>

PLiveFetch(p) ==
    /\ call[p].pc = "fetch"
    /\ \E response \in LiveResponses(focus, call[p].fetch_arg) :
          call' = [call EXCEPT ![p].pc = IF PacesAfterFetch(focus) THEN "sleep" ELSE "put",
                               ![p].live = @ + 1,
                               ![p].payload = response]
    /\ UNCHANGED <<focus, rows, now, last, search, region, tables, taxa>>

PLiveFetchFails(p) ==
    /\ call[p].pc = "fetch"
    /\ call' = [call EXCEPT ![p].pc = "raised", ![p].live = @ + 1,
                            ![p].failures = @ + 1, ![p].error = "FetchError"]
    /\ UNCHANGED <<focus, rows, now, last, search, region, tables, taxa>>

PSleep(p) ==
    /\ call[p].pc = "sleep"
    /\ now' = now + 1
    /\ call' = [call EXCEPT ![p].pc = "put", ![p].slept = @ + 1]
    /\ UNCHANGED <<focus, rows, last, search, region, tables, taxa>>

\* Process p's write to the cache; last keeps the latest put that executed.
PStore(p) ==
    /\ call[p].pc = "put"
    /\ IF focus = "geocode_cache" /\ LocationIsNone(call[p].payload)
       THEN /\ call' = [call EXCEPT ![p].pc = "done", ![p].ret = None]
            /\ UNCHANGED <<rows, last, taxa>>
       ELSE LET out == CacheWrite(focus, call[p].args, call[p].payload,
                                  call[p].fetched_at, rows)
            IN  /\ rows' = out.rows
                /\ IF out.status # "ok"
                   THEN /\ call' = [call EXCEPT ![p].pc = "raised",
                                                ![p].error = out.status]
                        /\ UNCHANGED last
                   ELSE /\ call' = [call EXCEPT ![p].pc = "done", ![p].wrote = 1,
                                                ![p].ret = Returned(focus, call[p].payload)]
                        /\ last' = [LastNone EXCEPT !.op = "put", !.table = focus,
                                                    !.kwargs = KeyOf(focus, call[p].args),
                                                    !.payload = call[p].payload,
                                                    !.fetched_at = call[p].fetched_at,
                                                    !.status = "ok", !.io = TRUE,
                                                    !.prior = p]
    /\ UNCHANGED <<focus, now, search, region, tables, taxa>>

PReturn(p) ==
    /\ call[p].pc \in {"done", "raised"}
    /\ call' = [call EXCEPT ![p] = IdleCall]
    /\ UNCHANGED <<focus, rows, now, last, search, region, tables, taxa>>

NextPair ==
    \E p \in Procs :
       \/ \E a \in PairArgs : PBegin(p, a)
       \/ PLiveFetch(p)
       \/ PLiveFetchFails(p)
       \/ PSleep(p)
       \/ PStore(p)
       \/ PReturn(p)

SpecPair == InitPair /\ [][NextPair]_vars

----------------------------------------------------------------------------
(* ebird_api.py: find_nearest_hotspot *)

\* range(0, 501, 5)
RANGE_START == 0

RANGE_STOP == 501

RANGE_STEP == 5

\* One that keeps the last of the hotspots at the least distance.
NearestHotspotLast(hotspots) ==
    hotspots[CHOOSE i \in 1..Len(hotspots) :
                /\ \A j \in 1..Len(hotspots) : hotspots[i].d <= hotspots[j].d
                /\ \A j \in (i + 1)..Len(hotspots) : hotspots[j].d > hotspots[i].d]

\* min(hotspots, key=...): the first of the hotspots at the least distance.
NearestHotspot(hotspots) ==
    hotspots[CHOOSE i \in 1..Len(hotspots) :
                /\ \A j \in 1..Len(hotspots) : hotspots[i].d <= hotspots[j].d
                /\ \A j \in 1..(i - 1) : hotspots[j].d > hotspots[i].d]

\* geodesic(coord, hs.location.coord): the point the distances are taken from.
DistanceOrigin(coord) == coord

SearchCoords == { <<4497932, -9326384>>, <<4497937, -9326384>> }

SeedCoord == <<4497934, -9326383>>

\* The first radius of the scan that has no row for the coordinate's key, if
\* every radius before it has a row holding an empty list.
SeedRadii ==
    IF search.pc = "idle" /\ call.pc = "idle" /\ now = 0
    THEN {d \in RANGE_START..(RANGE_STOP - 1) :
            /\ (d - RANGE_START) % RANGE_STEP = 0
            /\ SamePk(rows, focus,
                      KeyOf(focus, [coord |-> SeedCoord, distance_km |-> d])) = {}
            /\ d > RANGE_START =>
                  \E r \in SamePk(rows, focus,
                              KeyOf(focus, [coord |-> SeedCoord,
                                            distance_km |-> d - RANGE_STEP])) :
                     r.response_json.items = <<>>}
    ELSE {}

\* What an earlier scan found at a radius: nothing, two hotspots 8.0 and 3.0
\* away, or three of which the first and the last are equally near.
SeedLists ==
    { EmptyList,
      ListOf(<< HotspotJson("L1", 8), HotspotJson("L2", 3) >>),
      ListOf(<< HotspotJson("L1", 3), HotspotJson("L2", 8), HotspotJson("L3", 3) >>) }

InitSearch ==
    /\ focus = "nearby_hotspots_cache"
    /\ rows = {}
    /\ now = 0
    /\ last = LastNone
    /\ call = IdleCall
    /\ search = IdleSearch
    /\ region = IdleRegion
    /\ tables = SCHEMA_TABLES
    /\ taxa = NoTaxa

\* An earlier scan of the radii left its answers through
\* put_cached_nearby_hotspots: empty lists, then perhaps a list of hotspots.
SeedScan(distance_km, payload) ==
    /\ search.pc = "idle"
    /\ call.pc = "idle"
    /\ now = 0
    /\ rows' = put_cached_nearby_hotspots(SeedCoord, distance_km, payload, now, rows).rows
    /\ UNCHANGED <<focus, now, last, call, search, region, tables, taxa>>

\* The frame of find_nearest_hotspot at its first line.
SearchBegun(coord) ==
    [IdleSearch EXCEPT !.pc = "loop", !.coord = coord, !.dist_km = RANGE_START,
                       !.from_empty = (rows = {})]

\* find_nearest_hotspot(coord) is called: hotspots = [], the loop starts.
SearchStart(coord) ==
    /\ search.pc = "idle"
    /\ call.pc = "idle"
    /\ now <= MaxSkew
    /\ search' = SearchBegun(coord)
    /\ UNCHANGED <<focus, rows, now, last, call, region, tables, taxa>>

\* The loop body calls retrieve_nearby_hotspots(coord, distance_km=dist_km).
SearchProbe ==
    /\ search.pc = "loop"
    /\ call.pc = "idle"
    /\ call' = Begun([coord |-> search.coord, distance_km |-> search.dist_km])
    /\ search' = [search EXCEPT !.pc = "wait", !.probes = Append(@, search.dist_km)]
    /\ UNCHANGED <<focus, rows, now, last, region, tables, taxa>>

NeverBreaks(hotspots) == FALSE

\* "if hotspots: break"
Breaks(hotspots) == hotspots # <<>>

\* retrieve_nearby_hotspots returned: "if hotspots: break", else the next
\* radius; after the loop, None if hotspots is empty, else the nearest.
SearchCollect ==
    /\ search.pc = "wait"
    /\ call.pc = "done"
    /\ LET hotspots == call.ret
           next_km == search.dist_km + RANGE_STEP
           seen == [search EXCEPT !.hotspots = hotspots,
                                  !.sizes = Append(@, Len(hotspots)),
                                  !.svc_empty = @ /\ (call.live = 0 \/ hotspots = <<>>)]
       IN  search' = IF Breaks(hotspots)
                     THEN [seen EXCEPT !.pc = "done",
                                       !.measured_from = DistanceOrigin(search.coord),
                                       !.result = NearestHotspot(hotspots)]
                     ELSE IF next_km < RANGE_STOP
                     THEN [seen EXCEPT !.pc = "loop", !.dist_km = next_km]
                     ELSE [seen EXCEPT !.pc = "done", !.result = NoHotspot]
    /\ call' = IdleCall
    /\ UNCHANGED <<focus, rows, now, last, region, tables, taxa>>

\* retrieve_nearby_hotspots raised: the exception leaves find_nearest_hotspot.
SearchAbort ==
    /\ search.pc = "wait"
    /\ call.pc = "raised"
    /\ search' = [search EXCEPT !.pc = "raised", !.error = call.error,
                    !.svc_empty = /\ @
                                  /\ call.failures = 0
                                  /\ call.live = 0 \/ call.payload.items = <<>>]
    /\ call' = IdleCall
    /\ UNCHANGED <<focus, rows, now, last, region, tables, taxa>>

SearchReturn ==
    /\ search.pc \in {"done", "raised"}
    /\ search' = IdleSearch
    /\ UNCHANGED <<focus, rows, now, last, call, region, tables, taxa>>

NextSearch ==
    \/ \E d \in SeedRadii :
          \E p \in SeedLists : SeedScan(d, p)
    \/ \E c \in SearchCoords : SearchStart(c)
    \/ SearchProbe
    \/ LiveFetch
    \/ LiveFetchFails
    \/ Sleep
    \/ StoreAndReturn
    \/ SearchCollect
    \/ SearchAbort
    \/ SearchReturn

SpecSearch == InitSearch /\ [][NextSearch]_vars

----------------------------------------------------------------------------
(* ebird_api.py: find_region_code *)

\* How many radii from the first an earlier scan may have found hotspots at.
MaxFoundStep == 1

\* The values fuzz.ratio may give a candidate's name.
ScoreValues == {0, 50, 100}

RegionCoords == { <<4497932, -9326384>> }

REGION_CODES == <<"US", "US-MN", "US-MN-053">>

\* [loc.country_code, loc.subnat1_code, loc.subnat2_code], the None left out.
PossibleCodes(nearest_hotspot) ==
    LET possible_codes == << nearest_hotspot.country_code,
                             nearest_hotspot.subnat1_code,
                             nearest_hotspot.subnat2_code >>
        NotNone(code) == code # ""
    IN  SelectSeq(possible_codes, NotNone)

\* The name each region info carries under "result".
InfoNames(r_infos) == {r_infos[i].items[1].result : i \in 1..Len(r_infos)}

\* One that keeps the last of the infos of the highest score.
ClosestMatchLast(r_infos, ratio) ==
    r_infos[CHOOSE i \in 1..Len(r_infos) :
               /\ \A j \in 1..Len(r_infos) :
                     ratio[r_infos[j].items[1].result] <= ratio[r_infos[i].items[1].result]
               /\ \A j \in (i + 1)..Len(r_infos) :
                     ratio[r_infos[j].items[1].result] < ratio[r_infos[i].items[1].result]]

\* max(r_infos, key=...): the first of the infos of the highest score.
ClosestMatch(r_infos, ratio) ==
    r_infos[CHOOSE i \in 1..Len(r_infos) :
               /\ \A j \in 1..Len(r_infos) :
                     ratio[r_infos[j].items[1].result] <= ratio[r_infos[i].items[1].result]
               /\ \A j \in 1..(i - 1) :
                     ratio[r_infos[j].items[1].result] < ratio[r_infos[i].items[1].result]]

\* One that goes on to the candidates without a hotspot.
IsNoneNever(nearest_hotspot) == FALSE

\* "if nearest_hotspot is None"
IsNone(nearest_hotspot) == nearest_hotspot = NoHotspot

\* Region infos left by earlier lookups, stored through put_cached_region_info.
SeedRegion(region_code) ==
    /\ region.pc = "idle"
    /\ now = 0
    /\ rows' = put_cached_region_info(
                   region_code,
                   DictOf([kind |-> "region", code |-> region_code,
                           result |-> RegionName(region_code)]),
                   now, rows).rows
    /\ UNCHANGED <<focus, now, last, call, search, region, tables, taxa>>

\* find_region_code(region, coord) is called and calls find_nearest_hotspot.
RegionStart(coord) ==
    /\ region.pc = "idle"
    /\ search.pc = "idle"
    /\ call.pc = "idle"
    /\ now <= MaxSkew
    /\ region' = [IdleRegion EXCEPT !.pc = "search"]
    /\ search' = SearchBegun(coord)
    /\ UNCHANGED <<focus, rows, now, last, call, tables, taxa>>

\* find_nearest_hotspot is over: its exception leaves find_region_code, None
\* is returned for None, and else the candidate codes are listed.
RegionAfterSearch ==
    /\ region.pc = "search"
    /\ search.pc \in {"done", "raised"}
    /\ search' = IdleSearch
    /\ IF search.pc = "raised"
       THEN /\ region' = [region EXCEPT !.pc = "raised", !.error = search.error]
            /\ focus' = focus
       ELSE IF IsNone(search.result)
       THEN /\ region' = [region EXCEPT !.pc = "done", !.searched = TRUE,
                                        !.nearest = search.result, !.result = NoCode]
            /\ focus' = focus
       ELSE IF search.result = NoHotspot
       THEN /\ region' = [region EXCEPT !.pc = "raised", !.searched = TRUE,
                                        !.nearest = search.result,
                                        !.error = "AttributeError"]
            /\ focus' = focus
       ELSE /\ region' = [region EXCEPT !.pc = "infos", !.searched = TRUE,
                                        !.nearest = search.result,
                                        !.codes = PossibleCodes(search.result)]
            /\ focus' = "region_info_cache"
    /\ UNCHANGED <<rows, now, last, call, tables, taxa>>

\* The list comprehension calls retrieve_region_info(code) for the next code.
RegionLookup ==
    /\ region.pc = "infos"
    /\ call.pc = "idle"
    /\ Len(region.r_infos) < Len(region.codes)
    /\ call' = Begun([region_code |-> region.codes[Len(region.r_infos) + 1]])
    /\ region' = [region EXCEPT !.pc = "wait", !.lookups = @ + 1]
    /\ UNCHANGED <<focus, rows, now, last, search, tables, taxa>>

\* retrieve_region_info returned or raised.
RegionCollect ==
    /\ region.pc = "wait"
    /\ call.pc \in {"done", "raised"}
    /\ region' = IF call.pc = "raised"
                 THEN [region EXCEPT !.pc = "raised", !.error = call.error,
                                     !.live = @ + call.live]
                 ELSE [region EXCEPT !.pc = "infos", !.live = @ + call.live,
                                     !.r_infos = Append(@, call.ret)]
    /\ call' = IdleCall
    /\ UNCHANGED <<focus, rows, now, last, search, tables, taxa>>

\* closest_match = max(r_infos, key=lambda info: fuzz.ratio(region, ...));
\* ratio is what fuzz.ratio gives each name for the description passed in.
RegionPick(ratio) ==
    /\ region.pc = "infos"
    /\ Len(region.r_infos) = Len(region.codes)
    /\ region' =
          IF region.r_infos = <<>>
          THEN [region EXCEPT !.pc = "raised", !.error = "ValueError"]
          ELSE [region EXCEPT
                   !.pc = "done",
                   !.scores = [i \in 1..Len(region.r_infos) |->
                                  ratio[region.r_infos[i].items[1].result]],
                   !.result = [kind |-> "str",
                               v |-> ClosestMatch(region.r_infos, ratio).items[1].code]]
    /\ UNCHANGED <<focus, rows, now, last, call, search, tables, taxa>>

\* The caller has the region code, None, or the exception.
RegionReturn ==
    /\ region.pc \in {"done", "raised"}
    /\ region' = IdleRegion
    /\ focus' = "nearby_hotspots_cache"
    /\ UNCHANGED <<rows, now, last, call, search, tables, taxa>>

NextRegion ==
    \/ \E d \in SeedRadii :
          \E p \in SeedLists :
             /\ region.pc = "idle"
             /\ p # EmptyList => d <= RANGE_START + RANGE_STEP * MaxFoundStep
             /\ SeedScan(d, p)
    \/ \E i \in 1..Len(REGION_CODES) : SeedRegion(REGION_CODES[i])
    \/ \E c \in RegionCoords : RegionStart(c)
    \/ SearchProbe
    \/ LiveFetch
    \/ LiveFetchFails
    \/ Sleep
    \/ StoreAndReturn
    \/ SearchCollect
    \/ SearchAbort
    \/ RegionAfterSearch
    \/ RegionLookup
    \/ RegionCollect
    \/ \E ratio \in [InfoNames(region.r_infos) -> ScoreValues] : RegionPick(ratio)
    \/ RegionReturn

SpecRegion == InitSearch /\ [][NextRegion]_vars

----------------------------------------------------------------------------
(* Properties of the store *)

FullKey(table_name, kwargs) ==
    table_name \in SCHEMA_TABLES /\ DOMAIN kwargs = VALID_TABLES[table_name]

InvalidSchema(table_name, kwargs) ==
    \/ table_name \notin SCHEMA_TABLES
    \/ \E c \in DOMAIN kwargs : c \notin VALID_TABLES[table_name]

\* C1: for every declared table, put_cached with a full valid key succeeds and
\* a get_cached of the same key right afterwards returns the payload written.
\* Stated for payloads JSON encodes as they are and for a fetched_at that is
\* the current second; put_cached refuses four of the seven declared tables.
C1_PutThenGetReturnsPayload ==
    (/\ last.op = "put"
     /\ FullKey(last.table, last.kwargs)
     /\ JsonEncodable(last.payload)
     /\ last.fetched_at = now)
    => /\ last.status = "ok"
       /\ get_cached(last.table, last.kwargs, rows, now).result = last.payload

\* C2: a row written with fetched_at = T into a table whose writes get the time
\* to live D is returned by get_cached at every now <= T + D and is not found
\* at any now >= T + D + 1.
C2_TtlBoundary ==
    \A k \in SampleKeys(focus) :
        LET out == get_cached(focus, k, rows, now)
            live == {r \in rows : /\ r.table = focus
                                  /\ r.key = k
                                  /\ now <= r.fetched_at + TtlApplied(focus)}
        IN  /\ out.status = "ok"
            /\ IF live = {}
               THEN out.result = None
               ELSE \E r \in live : out.result = json_loads(r.response_json)

\* One row in its last valid second is returned while another, one second
\* past its expiry, is not found.
C2_Witness ==
    /\ last.op = "get"
    /\ \E r1 \in rows, r2 \in rows :
          /\ r1.table = focus /\ r2.table = focus
          /\ now = r1.fetched_at + TtlApplied(focus)
          /\ now = r2.fetched_at + TtlApplied(focus) + 1
          /\ last.kwargs = r1.key
          /\ last.result = json_loads(r1.response_json)
          /\ get_cached(focus, r2.key, rows, now).result = None

\* C3: get_cached and put_cached given an undeclared table, or a keyword that
\* is no key column of the table, raise ValueError before any storage access:
\* no connection is opened and the rows are unchanged.
C3_InvalidSchemaRejected ==
    /\ \A g \in GetInputs :
          InvalidSchema(g[1], g[2]) =>
              LET out == get_cached(g[1], g[2], rows, now)
              IN  out.status = "ValueError" /\ ~out.io /\ out.rows = rows
    /\ \A i \in PutInputs :
          InvalidSchema(i[1], i[2]) =>
              LET out == put_cached(i[1], i[3], i[4], i[2], rows)
              IN  out.status = "ValueError" /\ ~out.io /\ out.rows = rows
    /\ (last.op \in {"get", "put"} /\ InvalidSchema(last.table, last.kwargs))
           => (last.status = "ValueError" /\ ~last.io)

\* A call with a keyword of another table was refused while rows are stored.
C3_Witness ==
    /\ rows # {}
    /\ last.op = "put"
    /\ last.table \in SCHEMA_TABLES
    /\ InvalidSchema(last.table, last.kwargs)
    /\ last.status = "ValueError"

\* C4: the store holds at most one row per (table, key); a successful put
\* leaves under its key exactly the row of that put: its payload, its
\* fetched_at, and an expiry counted from that fetched_at.
C4_UpsertReplaces ==
    /\ \A r1 \in rows, r2 \in rows :
          (r1.table = r2.table /\ r1.key = r2.key) => r1 = r2
    /\ (last.op \in {"put", "put_typed"} /\ last.status = "ok")
          => SamePk(rows, last.table, last.kwargs) =
                 { Row(last.table, last.kwargs, json_dumps_default_str(last.payload),
                       last.fetched_at, last.fetched_at + TtlApplied(last.table)) }

\* A put replaced a row that was already stored under its key, with a later
\* fetched_at.
C4_Witness ==
    /\ last.op = "put"
    /\ last.status = "ok"
    /\ last.prior = 1
    /\ last.fetched_at > 0

----------------------------------------------------------------------------
(* Properties of cache-or-fetch *)

\* The rows a read of the call's key finds valid now.
ValidFor(table_name, key) ==
    {r \in rows : r.table = table_name /\ r.key = key /\ r.expires_at >= now}

CallKey == KeyOf(focus, call.args)

Codes(species_codes) == {species_codes[i] : i \in 1..Len(species_codes)}

\* C5: when the store holds a valid entry for the derived key, the call
\* returns the stored payload and makes no live call, no pause and no write;
\* so a call that goes on to the live call found no valid entry.
C5_HitReturnsStored ==
    /\ call.pc = "fetch" =>
          IF focus = "species_taxonomy_cache"
          THEN \E c \in Codes(call.args.species_codes) :
                  ValidFor(focus, [species_id |-> c]) = {}
          ELSE ValidFor(focus, CallKey) = {}
    /\ (call.pc = "done" /\ call.hit) =>
          /\ call.live = 0 /\ call.slept = 0 /\ call.wrote = 0
          /\ IF focus = "species_taxonomy_cache"
             THEN \A c \in Codes(call.args.species_codes) :
                     \E r \in ValidFor(focus, [species_id |-> c]) :
                        call.ret[c] = EBirdSpecies_from_json(json_loads(r.response_json))
             ELSE \E r \in ValidFor(focus, CallKey) :
                     call.ret = Returned(focus, json_loads(r.response_json))

\* A call was answered from a stored empty list.
C5_Witness ==
    /\ call.pc = "done"
    /\ call.hit
    /\ focus = "nearby_hotspots_cache"
    /\ call.ret = <<>>

\* C6: for each query shape, a call that misses and whose live call succeeds
\* stores the fetched payload under the derived key and returns it, so the
\* same call repeated at once is answered from the store.
C6_MissStoresAndReturns ==
    (/\ call.pc \in {"done", "raised"}
     /\ call.live = 1
     /\ call.failures = 0
     /\ call.payload # None)
    => /\ call.pc = "done"
       /\ call.wrote >= 1
       /\ focus # "species_taxonomy_cache" =>
             /\ call.ret = Returned(focus, call.payload)
             /\ ~IsMiss(CachedRead(focus, call.args, rows, now).result)

\* C7: every live call that returns is followed by exactly one pause of one
\* second before the retrieval function stores and returns.
C7_PausesAfterLiveCall ==
    (call.pc \in {"put", "done", "raised"} /\ call.failures = 0)
        => call.slept = call.live

\* C8: when the live call fails, the failure reaches the caller after that one
\* attempt and nothing is stored, so the same call would go to the service
\* again.
C8_FetchFailurePropagates ==
    call.failures >= 1 =>
        /\ call.pc = "raised"
        /\ call.error = "FetchError"
        /\ call.live = 1
        /\ call.wrote = 0
        /\ IF focus = "species_taxonomy_cache"
           THEN /\ MissingSpecies(call.args.species_codes,
                                  ReadTaxons(call.args.species_codes, rows, now))
                       = call.fetch_arg
                /\ call.fetch_arg # <<>>
           ELSE IsMiss(CachedRead(focus, call.args, rows, now).result)

\* A live call failed while the store held a row of another key.
C8_Witness ==
    /\ call.failures = 1
    /\ call.pc = "raised"
    /\ rows # {}

----------------------------------------------------------------------------
(* Properties of find_nearest_hotspot *)

\* The radii 0, 5, 10, ..., 500.
AllRadii ==
    [i \in 1..((RANGE_STOP - 1 - RANGE_START) \div RANGE_STEP + 1) |->
        RANGE_START + RANGE_STEP * (i - 1)]

\* C9: started on an empty store, with the nearby-hotspots service answering
\* every live call with an empty list, find_nearest_hotspot ends by returning
\* None, without an error, having probed exactly the radii 0, 5, ..., 500 in
\* ascending order (101 probes).
C9_EmptyScanReturnsNone ==
    (/\ search.pc \in {"done", "raised"}
     /\ search.from_empty
     /\ search.svc_empty)
    => /\ search.pc = "done"
       /\ search.result = NoHotspot
       /\ search.probes = AllRadii

\* C10: find_nearest_hotspot probes the radii 0, 5, 10, ... in ascending order
\* without skipping any, never past 500; a radius whose result is non-empty is
\* the last one probed, so every radius probed before it was empty and no
\* larger radius is read from the store or fetched; the hotspot returned is a
\* nearest one of that first non-empty result.
C10_AscendingUntilFirstFound ==
    LET n == Len(search.probes)
        m == Len(search.sizes)
    IN  /\ n <= Len(AllRadii)
        /\ \A i \in 1..n : search.probes[i] = AllRadii[i]
        /\ m \in {n - 1, n} \cap Nat
        /\ \A i \in 1..m :
              search.sizes[i] > 0 =>
                 /\ i = n
                 /\ search.pc = "done"
                 /\ search.result # NoHotspot
        /\ (search.pc \in {"wait"} /\ call.pc # "idle") =>
              call.args.distance_km = search.probes[n]
        /\ (search.pc = "done" /\ search.result # NoHotspot) =>
              /\ m = n
              /\ search.sizes[n] > 0
              /\ \A i \in 1..(n - 1) : search.sizes[i] = 0
        /\ (search.pc = "done" /\ search.result = NoHotspot) =>
              /\ search.probes = AllRadii
              /\ \A i \in 1..m : search.sizes[i] = 0

\* A search that found hotspots at radius 10 after empty results at 0 and 5
\* and returned the nearest of them.
C10_Witness ==
    /\ search.pc = "done"
    /\ search.probes = <<0, 5, 10>>
    /\ search.sizes = <<0, 0, 2>>
    /\ search.result.d = 3

\* C11: when find_nearest_hotspot returns a hotspot, it is one of the list
\* returned at the first non-empty radius (the last radius probed), no hotspot
\* of that list is nearer, and no hotspot earlier in that list is as near.
C11_ReturnsFirstNearest ==
    (search.pc = "done" /\ search.result # NoHotspot) =>
        LET hs == search.hotspots
        IN  /\ Len(hs) = search.sizes[Len(search.sizes)]
            /\ \A k \in 1..(Len(search.sizes) - 1) : search.sizes[k] = 0
            /\ \E i \in 1..Len(hs) :
                  /\ hs[i] = search.result
                  /\ \A j \in 1..Len(hs) : hs[j].d >= hs[i].d
                  /\ \A j \in 1..(i - 1) : hs[j].d > hs[i].d

\* A search that found, at radius 5, three hotspots of which the first and the
\* last are equally near, and returned the first.
C11_Witness ==
    /\ search.pc = "done"
    /\ search.probes = <<0, 5>>
    /\ Len(search.hotspots) = 3
    /\ search.hotspots[1].d = search.hotspots[3].d
    /\ search.result = search.hotspots[1]

----------------------------------------------------------------------------
(* Properties of retrieve_species_taxons *)

TAXONOMY == "species_taxonomy_cache"

\* The species codes the entries of a payload carry.
PayloadCodes(payload) ==
    {payload.items[i].items[1].speciesCode : i \in 1..Len(payload.items)} \ {""}

\* The entries of a payload that carry a species code, in the payload's order.
CodedEntries(payload) ==
    LET HasCode(raw_data) == raw_data.items[1].speciesCode # ""
    IN  SelectSeq(payload.items, HasCode)

NoDuplicates(species_codes) ==
    \A i, j \in 1..Len(species_codes) : species_codes[i] = species_codes[j] => i = j

\* A call of retrieve_species_taxons is over, after a live call that answered.
TaxonCallOver ==
    /\ focus = TAXONOMY
    /\ call.pc \in {"done", "raised"}
    /\ call.live = 1
    /\ call.failures = 0

\* The keys of the returned dict in its order: the requested codes at their
\* first place, then the codes only the payload brought, without those left
\* unresolved.
OutputKeys ==
    LET coded == CodedEntries(call.payload)
        added == [i \in 1..Len(coded) |-> coded[i].items[1].speciesCode]
        all == call.args.species_codes \o added
        InOutput(code) == code \in DOMAIN call.ret
    IN  SelectSeq(DictKeys(all, Len(all)), InOutput)

\* C12: a resolution of distinct codes, of which the live call was asked for
\* the ones not validly cached and answered with exactly those, succeeds and
\* returns one entry per requested code, in the order requested.
C12_BatchResolvesAll ==
    (/\ TaxonCallOver
     /\ NoDuplicates(call.args.species_codes)
     /\ PayloadCodes(call.payload) = Codes(call.fetch_arg))
    => /\ call.pc = "done"
       /\ DOMAIN call.ret = Codes(call.args.species_codes)
       /\ \A c \in DOMAIN call.ret : call.ret[c].ebird_species_code = c
       /\ OutputKeys = call.args.species_codes

\* C13: when the live call's answer leaves a requested code unresolved, the
\* resolution ends in the assertion failure (never a partial result), after
\* its one live call.
C13_UnresolvedIsAssertionError ==
    (/\ TaxonCallOver
     /\ \E c \in Codes(call.fetch_arg) : c \notin PayloadCodes(call.payload))
    => /\ call.pc = "raised"
       /\ call.error = "AssertionError"
       /\ call.live = 1

\* C14: retrieve_species_taxons reads the store once per requested code and
\* makes at most one live call: none, and no pause, when every requested code
\* has a valid row; otherwise one, for exactly the requested codes that had no
\* valid row when read, each named once.
C14_OneBatchForMissing ==
    (focus = TAXONOMY /\ call.pc # "idle") =>
        /\ call.reads = Len(call.args.species_codes)
        /\ call.live <= 1
        /\ call.slept <= call.live
        /\ call.hit => (call.live = 0 /\ call.slept = 0 /\ call.pc \in {"done", "raised"})
        /\ (call.hit /\ call.pc = "done") =>
              \A c \in Codes(call.args.species_codes) :
                 ValidFor(TAXONOMY, [species_id |-> c]) # {}
        /\ ~call.hit =>
              /\ call.live = (IF call.pc = "fetch" THEN 0 ELSE 1)
              /\ NoDuplicates(call.fetch_arg)
              /\ call.fetch_arg # <<>>
        /\ (~call.hit /\ call.pc \in {"fetch", "sleep", "put"}) =>
              Codes(call.fetch_arg) =
                 {c \in Codes(call.args.species_codes) :
                     SelectValid(rows, TAXONOMY, [species_id |-> c],
                                 call.fetched_at) = {}}

\* Of two requested codes one had a valid row: the live call was made for the
\* other alone.
C14_Witness ==
    /\ focus = TAXONOMY
    /\ call.pc = "sleep"
    /\ call.live = 1
    /\ Len(call.args.species_codes) = 2
    /\ call.reads = 2
    /\ Len(call.fetch_arg) = 1

\* C15: after a resolution that made a live call, each entry of the answer
\* that carries a species code has a row of species_taxonomy_cache under that
\* code, holding the entry, with fetched_at the time read before the live
\* call; and every requested code of a successful resolution has a valid row.
C15_EntriesStoredUnderOwnCode ==
    TaxonCallOver =>
        /\ \A i \in 1..Len(call.payload.items) :
              LET raw_data == call.payload.items[i]
                  s_code == raw_data.items[1].speciesCode
              IN  s_code # "" =>
                     \E r \in rows :
                        /\ r.table = TAXONOMY
                        /\ r.key = [species_id |-> s_code]
                        /\ r.fetched_at = call.fetched_at
                        /\ r.response_json = json_dumps_default_str(raw_data)
        /\ call.pc = "done" =>
              \A c \in Codes(call.args.species_codes) :
                 ValidFor(TAXONOMY, [species_id |-> c]) # {}

\* C16: an entry of the answer without a species code is dropped: no row is
\* written for it and it resolves nothing; the other entries of the answer
\* are stored and resolved all the same.
C16_DropsEntryWithoutCode ==
    (/\ TaxonCallOver
     /\ \E i \in 1..Len(call.payload.items) :
           call.payload.items[i].items[1].speciesCode = "")
    => /\ call.error \notin {"ValueError", "TypeError", "sqlite3.Error"}
       /\ call.wrote = Len(CodedEntries(call.payload))
       /\ ~\E r \in rows : r.table = TAXONOMY /\ r.key = [species_id |-> ""]
       /\ "" \notin {c \in DOMAIN call.species_map : call.species_map[c] # None}
       /\ \A c \in PayloadCodes(call.payload) :
             /\ ValidFor(TAXONOMY, [species_id |-> c]) # {}
             /\ c \in DOMAIN call.species_map
             /\ call.species_map[c] # None

----------------------------------------------------------------------------
(* Properties of the quantized keys *)

\* Coordinates are held in units of 1e-5 degree. The digits of an axis up to
\* and including the fourth decimal, with the sign.
Digits4(x) == IF x >= 0 THEN <<1, x \div 10>> ELSE <<-1, (-x) \div 10>>

SameDigits4(a, b) == Digits4(a[1]) = Digits4(b[1]) /\ Digits4(a[2]) = Digits4(b[2])

\* The value with four decimals nearest to x, the even one of two equally near.
Nearest4(x) ==
    CHOOSE g \in (x - 5)..(x + 5) :
        /\ g % 10 = 0
        /\ (g - x \in {5, -5}) => (g \div 10) % 2 = 0

RoundMatch(a, b) == Nearest4(a[1]) = Nearest4(b[1]) /\ Nearest4(a[2]) = Nearest4(b[2])

\* A valid row written for SeedCoord at the radius being probed.
SeededAtProbe ==
    \E r \in rows : /\ r.table = "nearby_hotspots_cache"
                    /\ r.key.dist_km = search.dist_km
                    /\ r.expires_at >= now

\* C19 as stated: a nearby-hotspots query for a coordinate that has the digits
\* of SeedCoord up to the fourth decimal, on both axes, hits the row written
\* for SeedCoord.
C19_SameDigitsSameKey ==
    (/\ search.pc = "wait"
     /\ call.pc # "idle"
     /\ SeededAtProbe
     /\ SameDigits4(search.coord, SeedCoord))
    => (call.hit /\ call.live = 0)

\* C19 amended: a nearby-hotspots query hits the row written for SeedCoord
\* exactly when its coordinate and SeedCoord round, on both axes, to the same
\* value of four decimals; (44.97932, -93.26384) and (44.97934, -93.26383)
\* do, (44.97937, -93.26384) and (44.97934, -93.26383) do not.
C19_RoundMatchSameKey ==
    /\ RoundMatch(<<4497932, -9326384>>, <<4497934, -9326383>>)
    /\ round_decimals(<<4497932, -9326384>>) = <<4497930, -9326380>>
    /\ (/\ search.pc = "wait"
        /\ call.pc # "idle"
        /\ SeededAtProbe)
       => /\ call.hit <=> RoundMatch(search.coord, SeedCoord)
          /\ call.hit => call.live = 0

\* A query for (44.97932, -93.26384) answered from the row written for
\* (44.97934, -93.26383).
C19_Witness ==
    /\ search.pc = "wait"
    /\ search.coord = <<4497932, -9326384>>
    /\ search.coord # SeedCoord
    /\ SeededAtProbe
    /\ call.pc = "done"
    /\ call.hit

----------------------------------------------------------------------------
(* Properties of the expiry of rows *)

DAY == 24 * 60 * 60

\* The durations as stated: a week for nearby_hotspots_cache.
StatedTtl ==
    [nearby_hotspots_cache |-> 7 * DAY, species_list_cache |-> 7 * DAY,
     observation_photos_cache |-> 7 * DAY, hotspots_in_region_cache |-> 7 * DAY,
     region_info_cache |-> 30 * DAY, geocode_cache |-> 90 * DAY,
     species_taxonomy_cache |-> 90 * DAY]

\* The durations with thirty days for nearby_hotspots_cache.
AmendedTtl == [StatedTtl EXCEPT !.nearby_hotspots_cache = 30 * DAY]

\* C20 as stated: every stored row has expires_at = fetched_at + TTL(table),
\* TTL being 7 days for nearby_hotspots_cache, species_list_cache,
\* observation_photos_cache and hotspots_in_region_cache, 30 days for
\* region_info_cache, 90 days for geocode_cache and species_taxonomy_cache.
C20_ExpiresAtStatedTtl ==
    \A r \in rows : r.expires_at = r.fetched_at + StatedTtl[r.table]

\* C20 amended: every row stored by put_cached or by a per-table wrapper
\* called with its default ttl_s has expires_at = fetched_at + TTL(table), TTL
\* being 30 days for nearby_hotspots_cache and region_info_cache, 7 days for
\* species_list_cache, observation_photos_cache and hotspots_in_region_cache,
\* 90 days for geocode_cache and species_taxonomy_cache.
C20_ExpiresAtDeclaredTtl ==
    \A r \in rows : r.expires_at = r.fetched_at + AmendedTtl[r.table]

\* A row of nearby_hotspots_cache, fetched after time 0, that expires thirty
\* days after it was fetched.
C20_Witness ==
    \E r \in rows : /\ r.table = "nearby_hotspots_cache"
                    /\ r.fetched_at > 0
                    /\ r.expires_at = r.fetched_at + 30 * DAY

----------------------------------------------------------------------------
(* Properties of find_region_code *)

\* The candidate codes of a hotspot: country, subnational 1, subnational 2,
\* those it has.
Candidates(h) ==
    (IF h.country_code # "" THEN << h.country_code >> ELSE <<>>)
    \o (IF h.subnat1_code # "" THEN << h.subnat1_code >> ELSE <<>>)
    \o (IF h.subnat2_code # "" THEN << h.subnat2_code >> ELSE <<>>)

\* C17: with a nearest hotspot, find_region_code looks up the region info of
\* each candidate code the hotspot has, in the order country, subnational 1,
\* subnational 2 (at most three lookups), and returns the code of the
\* candidate of the highest score, the earliest of them when several share it.
C17_BestCandidateEarliestWins ==
    /\ region.pc \in {"infos", "wait"} =>
          /\ region.lookups <= Len(Candidates(region.nearest))
          /\ Len(Candidates(region.nearest)) <= 3
          /\ \A i \in 1..Len(region.r_infos) :
                region.r_infos[i].items[1].code = Candidates(region.nearest)[i]
          /\ region.pc = "wait" =>
                call.args.region_code = Candidates(region.nearest)[region.lookups]
    /\ (region.pc = "done" /\ region.result # NoCode) =>
          LET cand == Candidates(region.nearest)
              n == Len(cand)
          IN  /\ region.lookups = n
              /\ Len(region.r_infos) = n
              /\ Len(region.scores) = n
              /\ \E i \in 1..n :
                    /\ region.result = [kind |-> "str", v |-> cand[i]]
                    /\ \A j \in 1..n : region.scores[j] <= region.scores[i]
                    /\ \A j \in 1..(i - 1) : region.scores[j] < region.scores[i]

\* Three candidates, the country and the subnational-1 code sharing the
\* highest score: the country code is returned.
C17_Witness ==
    /\ region.pc = "done"
    /\ region.lookups = 3
    /\ region.live >= 1
    /\ region.scores = <<100, 100, 50>>
    /\ region.result = [kind |-> "str", v |-> "US"]

\* C18: when find_nearest_hotspot returns None, find_region_code returns None
\* and has looked up no region info: no read of region_info_cache, no live
\* call for a region.
C18_NoHotspotNoLookup ==
    /\ (region.pc \in {"done", "raised"} /\ region.searched
        /\ region.nearest = NoHotspot) =>
          /\ region.pc = "done"
          /\ region.result = NoCode
          /\ region.lookups = 0
          /\ region.live = 0
          /\ region.r_infos = <<>>
    /\ region.lookups > 0 => region.nearest # NoHotspot
    /\ (region.pc # "idle" /\ focus = "region_info_cache") =>
          region.nearest # NoHotspot

\* The search went through the 101 radii, all empty, and find_region_code
\* returned None.
C18_Witness ==
    /\ region.pc = "done"
    /\ region.searched
    /\ region.nearest = NoHotspot
    /\ region.result = NoCode
    /\ \E r \in rows : r.table = "nearby_hotspots_cache" /\ r.key.dist_km = 500

----------------------------------------------------------------------------
(* primitives.py, yaml_primitives.py: values built and compared *)

\* A string is the sequence of its characters.
MaxNameLen == 5

Chars == {"a", "b", " "}

RECURSIVE Strings(_)
Strings(n) ==
    IF n = 0 THEN {<<>>}
    ELSE Strings(n - 1) \cup
         {Append(t, c) : t \in {u \in Strings(n - 1) : Len(u) = n - 1}, c \in Chars}

\* str.split() without a separator: the maximal runs of non-blank characters.
RECURSIVE str_split_from(_, _, _)
str_split_from(s, i, word) ==
    LET closed == IF word = <<>> THEN <<>> ELSE << word >>
    IN  IF i > Len(s) THEN closed
        ELSE IF s[i] = " " THEN closed \o str_split_from(s, i + 1, <<>>)
        ELSE str_split_from(s, i + 1, Append(word, s[i]))

str_split(s) == str_split_from(s, 1, <<>>)

\* " ".join(parts)
RECURSIVE str_join(_)
str_join(parts) ==
    IF parts = <<>> THEN <<>>
    ELSE IF Len(parts) = 1 THEN parts[1]
    ELSE parts[1] \o << " " >> \o str_join(Tail(parts))

Built(status, generic, specific) ==
    [status |-> status, generic_name |-> generic, specific_name |-> specific]

\* The two names EBirdSpecies.from_json takes from data["sciName"].
EBirdSpecies_from_json_names(sciName) ==
    LET scientific_name_parts == str_split(sciName)
    IN  IF scientific_name_parts = <<>>
        THEN Built("IndexError", <<>>, <<>>)
        ELSE Built("ok", scientific_name_parts[1],
                   str_join(Tail(scientific_name_parts)))

\* The same, of the YAML data model.
EBirdSpecies_from_api_json(sciName) ==
    LET scientific_name_parts == str_split(sciName)
    IN  IF scientific_name_parts = <<>>
        THEN Built("IndexError", <<>>, <<>>)
        ELSE Built("ok", scientific_name_parts[1],
                   str_join(Tail(scientific_name_parts)))

\* specific, generic = yaml_data["scientific_name"].split()
Species_from_yaml(scientific_name) ==
    LET parts == str_split(scientific_name)
    IN  IF Len(parts) # 2
        THEN Built("ValueError", <<>>, <<>>)
        ELSE Built("ok", parts[2], parts[1])

CONSTRUCTORS == {"EBirdSpecies.from_json", "EBirdSpecies.from_api_json", "Species.from_yaml"}

Constructed(ctor, name) ==
    CASE ctor = "EBirdSpecies.from_json" -> EBirdSpecies_from_json_names(name)
      [] ctor = "EBirdSpecies.from_api_json" -> EBirdSpecies_from_api_json(name)
      [] ctor = "Species.from_yaml" -> Species_from_yaml(name)

\* Coordinate._key, __eq__
Coordinate_key(coord) == round_decimals(coord)

Coordinate_eq(self, other) == Coordinate_key(self) = Coordinate_key(other)

\* EBirdLocation._key, __eq__; the names and codes follow from the id.
EBirdLocation_key(loc) == << loc.id, Coordinate_key(loc.coord) >>

EBirdLocation_eq(self, other) == EBirdLocation_key(self) = EBirdLocation_key(other)

CoordInputs ==
    {<<lat, lng>> : lat \in {4497932, 4497934, 4497935, 4497937},
                    lng \in {-9326384, -9326383}}

LocationInputs == {[id |-> i, coord |-> c] : i \in {"L1", "L2"}, c \in CoordInputs}

InitValues ==
    /\ focus = "species_taxonomy_cache"
    /\ rows = {}
    /\ now = 0
    /\ last = LastNone
    /\ call = IdleCall
    /\ search = IdleSearch
    /\ region = IdleRegion
    /\ tables = SCHEMA_TABLES
    /\ taxa = NoTaxa

Construct(ctor, name) ==
    /\ last = LastNone
    /\ last' = [LastNone EXCEPT !.op = ctor,
                                !.kwargs = [name |-> name],
                                !.status = Constructed(ctor, name).status,
                                !.result = Constructed(ctor, name)]
    /\ UNCHANGED <<focus, rows, now, call, search, region, tables, taxa>>

CompareCoordinates(self, other) ==
    /\ last = LastNone
    /\ last' = [LastNone EXCEPT !.op = "Coordinate.__eq__",
                                !.kwargs = [self |-> self, other |-> other],
                                !.status = "ok",
                                !.result = [value |-> Coordinate_eq(self, other)]]
    /\ UNCHANGED <<focus, rows, now, call, search, region, tables, taxa>>

CompareLocations(self, other) ==
    /\ last = LastNone
    /\ last' = [LastNone EXCEPT !.op = "EBirdLocation.__eq__",
                                !.kwargs = [self |-> self, other |-> other],
                                !.status = "ok",
                                !.result = [value |-> EBirdLocation_eq(self, other)]]
    /\ UNCHANGED <<focus, rows, now, call, search, region, tables, taxa>>

\* str.lower, str.title on names written with the letters a, b, A, B.
Letters == {"a", "b", "A", "B"}

Lower(c) == CASE c = "A" -> "a" [] c = "B" -> "b" [] OTHER -> c

Upper(c) == CASE c = "a" -> "A" [] c = "b" -> "B" [] OTHER -> c

str_lower(s) == [i \in 1..Len(s) |-> Lower(s[i])]

\* The first letter of each word upper case, the others lower case.
str_title(s) ==
    [i \in 1..Len(s) |->
        IF i = 1 \/ s[i - 1] \notin Letters THEN Upper(s[i]) ELSE Lower(s[i])]

\* The dataclass Species, and EBirdSpecies with its species code.
Species(common_name, specific_name, generic_name, family_common_name, family, order) ==
    [class |-> "Species", common_name |-> common_name,
     specific_name |-> specific_name, generic_name |-> generic_name,
     family_common_name |-> family_common_name, family |-> family, order |-> order]

EBirdSpecies(species, ebird_species_code) ==
    [class |-> "EBirdSpecies", common_name |-> species.common_name,
     specific_name |-> species.specific_name, generic_name |-> species.generic_name,
     family_common_name |-> species.family_common_name, family |-> species.family,
     order |-> species.order, ebird_species_code |-> ebird_species_code]

\* The property scientific_name.
scientific_name(species) ==
    str_title(species.generic_name) \o << " " >> \o str_lower(species.specific_name)

Species_to_yaml(species) ==
    [common_name |-> species.common_name,
     scientific_name |-> scientific_name(species),
     family_common_name |-> species.family_common_name,
     family |-> species.family, order |-> species.order]

EBirdSpecies_to_yaml(species) ==
    [common_name |-> species.common_name,
     scientific_name |-> scientific_name(species),
     family_common_name |-> species.family_common_name,
     family |-> species.family, order |-> species.order,
     ebird_species_code |-> species.ebird_species_code]

\* Species.from_yaml on the whole dictionary.
Species_from_yaml_data(yaml_data) ==
    LET names == Species_from_yaml(yaml_data.scientific_name)
    IN  IF names.status # "ok"
        THEN [status |-> names.status]
        ELSE [status |-> "ok",
              value |-> Species(yaml_data.common_name, names.specific_name,
                                names.generic_name, yaml_data.family_common_name,
                                yaml_data.family, yaml_data.order)]

\* EBirdSpecies.from_yaml: Species.from_yaml, then the species code.
EBirdSpecies_from_yaml(yaml_data) ==
    LET species == Species_from_yaml_data(yaml_data)
    IN  IF species.status # "ok"
        THEN species
        ELSE [status |-> "ok",
              value |-> EBirdSpecies(species.value, yaml_data.ebird_species_code)]

\* Names of one or two letters, in any case.
NameInputs ==
    {<< x >> : x \in Letters} \cup {<< x, y >> : x \in Letters, y \in Letters}

SpeciesInputs ==
    {Species("American Robin", specific, generic, "Thrushes", "Turdidae", "Passeriformes") :
        specific \in NameInputs, generic \in NameInputs}

ValueInputs ==
    SpeciesInputs \cup {EBirdSpecies(species, "amerob") : species \in SpeciesInputs}

\* cls.from_yaml(s.to_yaml()) for s of class cls.
RoundTrip(species) ==
    /\ last = LastNone
    /\ LET back == IF species.class = "Species"
                   THEN Species_from_yaml_data(Species_to_yaml(species))
                   ELSE EBirdSpecies_from_yaml(EBirdSpecies_to_yaml(species))
       IN  last' = [LastNone EXCEPT !.op = "from_yaml(to_yaml)",
                                   !.kwargs = [s |-> species],
                                   !.status = back.status,
                                   !.result = back]
    /\ UNCHANGED <<focus, rows, now, call, search, region, tables, taxa>>

NextValues ==
    \/ \E ctor \in CONSTRUCTORS, name \in Strings(MaxNameLen) : Construct(ctor, name)
    \/ \E self \in CoordInputs, other \in CoordInputs : CompareCoordinates(self, other)
    \/ \E self \in LocationInputs, other \in LocationInputs : CompareLocations(self, other)
    \/ \E species \in ValueInputs : RoundTrip(species)

SpecValues == InitValues /\ [][NextValues]_vars

----------------------------------------------------------------------------
(* taxonomies.py: insert_species *)

\* How many different species a run inserts.
MaxInserts == 3

\* d[k] = v
DictSet(d, k, v) == [x \in DOMAIN d \cup {k} |-> IF x = k THEN v ELSE d[x]]

\* A genus that starts its dict of species afresh at each insertion.
TaxonomicGenus_insert_species_afresh(genus, s) ==
    [genus EXCEPT !.species = DictSet(<<>>, s.specific_name,
                                      TaxonomicSpecies(s.specific_name))]

TaxonomicGenus_insert_species(genus, s) ==
    [genus EXCEPT !.species = DictSet(@, s.specific_name,
                                      TaxonomicSpecies(s.specific_name))]

TaxonomicFamily_insert_species(family, s) ==
    LET genera == IF s.generic_name \notin DOMAIN family.genera
                  THEN DictSet(family.genera, s.generic_name,
                               TaxonomicGenus(s.generic_name))
                  ELSE family.genera
    IN  [family EXCEPT !.genera =
            DictSet(genera, s.generic_name,
                    TaxonomicGenus_insert_species(genera[s.generic_name], s))]

TaxonomicOrder_insert_species(order, s) ==
    LET families == IF s.family \notin DOMAIN order.families
                    THEN DictSet(order.families, s.family, TaxonomicFamily(s.family))
                    ELSE order.families
    IN  [order EXCEPT !.families =
            DictSet(families, s.family,
                    TaxonomicFamily_insert_species(families[s.family], s))]

TaxonomicClass_insert_species(class, s) ==
    LET orders == IF s.order \notin DOMAIN class.orders
                  THEN DictSet(class.orders, s.order, TaxonomicOrder(s.order))
                  ELSE class.orders
    IN  [class EXCEPT !.orders =
            DictSet(orders, s.order,
                    TaxonomicOrder_insert_species(orders[s.order], s))]

TreeSpecies ==
    {Species("bird", specific, generic, "birds", family, order) :
        specific \in {<< "a" >>, << "b" >>}, generic \in {<< "A" >>, << "B" >>},
        family \in {"Turdidae", "Paridae"}, order \in {"Passeriformes", "Piciformes"}}

InitTree ==
    /\ focus = "species_taxonomy_cache"
    /\ rows = {}
    /\ now = 0
    /\ last = LastNone
    /\ call = IdleCall
    /\ search = IdleSearch
    /\ region = IdleRegion
    /\ tables = SCHEMA_TABLES
    /\ taxa = NoTaxa

\* A call of TaxonomicClass.insert_species(s); prior tells whether s had been
\* inserted before.
Call_insert_species(s) ==
    /\ s \in taxa.inserted \/ Cardinality(taxa.inserted) < MaxInserts
    /\ taxa' = [tree |-> TaxonomicClass_insert_species(taxa.tree, s),
                inserted |-> taxa.inserted \cup {s}]
    /\ last' = [LastNone EXCEPT !.op = "insert_species", !.kwargs = [s |-> s],
                                !.status = "ok",
                                !.prior = IF s \in taxa.inserted THEN 1 ELSE 0]
    /\ UNCHANGED <<focus, rows, now, call, search, region, tables>>

NextTree == \E s \in TreeSpecies : Call_insert_species(s)

SpecTree == InitTree /\ [][NextTree]_vars

\* C26: each of the three constructors, given a scientific name of two or
\* more words, makes the first word the genus and the remaining words, joined
\* by single blanks, the specific epithet.
C26_FirstTokenIsGenus ==
    (last.op \in CONSTRUCTORS /\ Len(str_split(last.kwargs.name)) >= 2) =>
        /\ last.status = "ok"
        /\ last.result.generic_name = Head(str_split(last.kwargs.name))
        /\ last.result.specific_name = str_join(Tail(str_split(last.kwargs.name)))

\* C28: two coordinates compare equal only when their latitudes and their
\* longitudes are identical, and so do two locations.
C28_EqualityIsExact ==
    /\ last.op = "Coordinate.__eq__" =>
          (last.result.value <=> last.kwargs.self = last.kwargs.other)
    /\ last.op = "EBirdLocation.__eq__" =>
          (last.result.value => last.kwargs.self.coord = last.kwargs.other.coord)

----------------------------------------------------------------------------
(* Properties of get_cached: payload shape, expired rows *)

\* The payload shape declared for each table.
DeclaredShape ==
    [nearby_hotspots_cache |-> "list", species_list_cache |-> "list",
     hotspots_in_region_cache |-> "list", geocode_cache |-> "dict",
     species_taxonomy_cache |-> "dict", observation_photos_cache |-> "dict",
     region_info_cache |-> "dict"]

\* C21: get_cached hands back a stored payload only if it has the shape
\* declared for the table; a valid row whose payload has the other shape makes
\* it fail with CorruptPayload.
C21_PayloadShapeChecked ==
    (last.op = "get" /\ last.table \in DOMAIN DeclaredShape /\ last.io) =>
        /\ (last.status = "ok" /\ last.result # None) =>
              last.result.shape = DeclaredShape[last.table]
        /\ (\E r \in SelectValid(rows, last.table, last.kwargs, now) :
               json_loads(r.response_json).shape # DeclaredShape[last.table]) =>
              last.status = "CorruptPayload"

\* C22: a payload get_cached returns is that of a row of the key with
\* expires_at >= now, so a row with expires_at < now is never returned; a step
\* that is a get_cached leaves every row as it was; and a row leaves the store
\* only by a put on its own key.
C22_GetFiltersAndKeepsRows ==
    [][/\ ((last'.op = "get" /\ now' = now /\ last'.result # None) =>
              (\E r \in rows : /\ r.table = last'.table
                               /\ r.key = last'.kwargs
                               /\ r.expires_at >= now
                               /\ last'.result = json_loads(r.response_json)))
          /\ (last'.op = "get" => rows' = rows)
          /\ (\A q \in rows :
                q \notin rows' =>
                   /\ last'.op \in {"put", "put_typed"}
                   /\ last'.table = q.table
                   /\ last'.kwargs = q.key)]_vars

\* A get_cached that found nothing while the row of its key, expired, is
\* still in the store.
C22_Witness ==
    /\ last.op = "get"
    /\ last.status = "ok"
    /\ last.result = None
    /\ \E r \in rows : /\ r.table = last.table
                       /\ r.key = last.kwargs
                       /\ r.expires_at < now

----------------------------------------------------------------------------
(* Properties of retrieve_geocode *)

\* C29: a retrieve_geocode call whose live geocoder call found nothing ends
\* normally with None, after one pause and without a write: the store holds
\* no valid row for the query, so the same query misses and goes to the
\* geocoder again; find_coordinate gives None for it.
C29_NothingFoundNothingStored ==
    (/\ focus = "geocode_cache"
     /\ call.pc \in {"done", "raised"}
     /\ call.live = 1
     /\ call.failures = 0
     /\ call.payload = None) =>
        /\ call.pc = "done"
        /\ call.ret = None
        /\ call.slept = 1
        /\ call.wrote = 0
        /\ \A r \in rows : r.table = focus /\ r.key = CallKey => r.expires_at < now
        /\ Begun(call.args).pc = "fetch"
        /\ find_coordinate(call.ret) = None

\* A retrieve_geocode call that is over, the geocoder having found nothing.
C29_Witness ==
    /\ focus = "geocode_cache"
    /\ call.pc = "done"
    /\ call.live = 1
    /\ call.slept = 1
    /\ call.payload = None
    /\ call.ret = None

----------------------------------------------------------------------------
(* Properties of the coordinate in retrieve_nearby_hotspots *)

\* C27: in retrieve_nearby_hotspots the live call is given the caller's own
\* coordinate, which is the one find_nearest_hotspot was called with; the
\* rounded coordinate appears only in the keys of the rows, read and written;
\* and the nearest hotspot is measured from the caller's own coordinate.
C27_OriginalCoordinateLive ==
    /\ (call.pc \in {"fetch", "sleep", "put"} \/ call.live > 0) =>
          /\ call.fetch_arg.coord = call.args.coord
          /\ call.fetch_arg.distance_km = call.args.distance_km
    /\ (search.pc = "wait" /\ call.pc # "idle") => call.args.coord = search.coord
    /\ (call.pc = "done" /\ call.hit) =>
          \E r \in ValidFor(focus, CallKey) :
             /\ r.key.lat_round = RoundAxis(call.args.coord[1])
             /\ r.key.lng_round = RoundAxis(call.args.coord[2])
             /\ call.ret = Returned(focus, json_loads(r.response_json))
    /\ \A r \in rows : r.key.lat_round % 10 = 0 /\ r.key.lng_round % 10 = 0
    /\ (search.pc = "done" /\ search.result # NoHotspot) =>
          search.measured_from = search.coord

\* A live call made for a coordinate that is not its own rounding.
C27_Witness ==
    /\ search.pc = "wait"
    /\ call.pc = "sleep"
    /\ call.live = 1
    /\ call.fetch_arg.coord = search.coord
    /\ round_decimals(search.coord) # search.coord

----------------------------------------------------------------------------
(* Properties of a repeated find_nearest_hotspot *)

\* What find_nearest_hotspot(coord) does from radius dist_km on, over the rows
\* as they are: the scan up to its first miss, where a live call is due.
RECURSIVE Rescan(_, _)
Rescan(coord, dist_km) ==
    LET args == [coord |-> coord, distance_km |-> dist_km]
        cached == CachedRead("nearby_hotspots_cache", args, rows, now).result
        hotspots == Returned("nearby_hotspots_cache", cached)
    IN  IF IsMiss(cached) THEN [live |-> 1, result |-> NoHotspot]
        ELSE IF Breaks(hotspots) THEN [live |-> 0, result |-> NearestHotspot(hotspots)]
        ELSE IF dist_km + RANGE_STEP < RANGE_STOP THEN Rescan(coord, dist_km + RANGE_STEP)
        ELSE [live |-> 0, result |-> NoHotspot]

\* C24: when a find_nearest_hotspot call whose live calls were all answered is
\* over, it has returned, and a second call for the same coordinate, made
\* while the entries are within their TTL, is answered from the cache at every
\* radius: no live call, and the same result.
C24_SecondScanFromCache ==
    (search.pc \in {"done", "raised"} /\ search.error # "FetchError") =>
        /\ search.pc = "done"
        /\ Rescan(search.coord, RANGE_START).live = 0
        /\ Rescan(search.coord, RANGE_START).result = search.result

----------------------------------------------------------------------------
(* Properties of init_db *)

\* C25: after init_db the file has the seven tables, and init_db changes no
\* row: the tables missing are made, and a call on a file that has them all
\* leaves the tables and every row (payload, fetched_at, expires_at) as they
\* were.
C25_InitIdempotent ==
    [][last'.op = "init_db" =>
          /\ tables' = SCHEMA_TABLES
          /\ tables \subseteq tables'
          /\ rows' = rows
          /\ (tables = SCHEMA_TABLES => tables' = tables)]_vars

\* init_db called on a file that had the seven tables, and rows in them.
C25_Witness ==
    /\ last.op = "init_db"
    /\ last.prior = Cardinality(SCHEMA_TABLES)
    /\ tables = SCHEMA_TABLES
    /\ taxa = NoTaxa
    /\ rows # {}

----------------------------------------------------------------------------
(* Properties of two processes on one key *)

\* The row the latest executed put wrote.
LastPutRow ==
    Row(last.table, last.kwargs, json_dumps_default_str(last.payload),
        last.fetched_at, last.fetched_at + TtlApplied(last.table))

\* C23: however the reads and writes of two processes running the same
\* retrieval on one key interleave, the store holds at most one row for the
\* key, and that row is, in payload, fetched_at and expires_at, the one the
\* put that executed last wrote; a read of the cache finds nothing or returns
\* the whole payload of that one put.
C23_InterleavedCallsKeepOneRow ==
    /\ [](/\ Cardinality({r \in rows : r.table = focus /\ r.key = PairKey}) <= 1
          /\ \A r \in rows : last.op = "put" /\ r = LastPutRow
          /\ last.op = "put" => rows = {LastPutRow})
    /\ [][\A p \in Procs :
            (call[p].pc = "idle" /\ call'[p].pc # "idle") =>
               IF call'[p].hit
               THEN /\ last.op = "put"
                    /\ call'[p].pc = "done"
                    /\ call'[p].ret =
                          Returned(focus, json_loads(json_dumps_default_str(last.payload)))
               ELSE /\ call'[p].pc = "fetch"
                    /\ \A r \in rows : r.expires_at < now]_vars

\* Both processes missed, fetched and wrote, the second put replacing the row
\* of the first with an answer fetched at another time.
C23_Witness ==
    /\ call[1].pc = "done" /\ call[1].wrote = 1
    /\ call[2].pc = "done" /\ call[2].wrote = 1
    /\ call[1].fetched_at # call[2].fetched_at
    /\ last.op = "put"
    /\ rows = {LastPutRow}

----------------------------------------------------------------------------
(* Properties of Species.to_yaml and from_yaml *)

\* A genus with a capital first letter and an epithet in lower case, each one
\* word.
CanonicalCase(species) ==
    /\ species.generic_name = str_title(species.generic_name)
    /\ species.specific_name = str_lower(species.specific_name)

\* C31: a Species, or an EBirdSpecies, whose genus and epithet are single
\* words in canonical case comes back equal from from_yaml(to_yaml()): the
\* genus is still the genus and the epithet the epithet.
C31_YamlRoundTrip ==
    (last.op = "from_yaml(to_yaml)" /\ CanonicalCase(last.kwargs.s)) =>
        /\ last.status = "ok"
        /\ last.result.value = last.kwargs.s

----------------------------------------------------------------------------
(* Properties of insert_species *)

\* The species dict the tree keeps for the genus of s, if the path is there.
AtPath(tree, s) ==
    /\ s.order \in DOMAIN tree.orders
    /\ s.family \in DOMAIN tree.orders[s.order].families
    /\ s.generic_name \in DOMAIN tree.orders[s.order].families[s.family].genera
    /\ s.specific_name \in
          DOMAIN tree.orders[s.order].families[s.family].genera[s.generic_name].species

\* C32: after any insertions, each inserted species is found under its
\* order, family, genus and specific name; each key is the name of the node it
\* leads to; each node of the tree lies on the path of an inserted species;
\* and inserting an inserted species again gives the same tree.
C32_TreeHoldsInserted ==
    LET tree == taxa.tree
        inserted == taxa.inserted
    IN  /\ \A s \in inserted :
              /\ AtPath(tree, s)
              /\ TaxonomicClass_insert_species(tree, s) = tree
        /\ \A o \in DOMAIN tree.orders :
              /\ tree.orders[o].order_name = o
              /\ \E s \in inserted : s.order = o
              /\ \A f \in DOMAIN tree.orders[o].families :
                    /\ tree.orders[o].families[f].family_name = f
                    /\ \E s \in inserted : s.order = o /\ s.family = f
                    /\ \A g \in DOMAIN tree.orders[o].families[f].genera :
                          /\ tree.orders[o].families[f].genera[g].generic_name = g
                          /\ \E s \in inserted :
                                s.order = o /\ s.family = f /\ s.generic_name = g
                          /\ \A e \in DOMAIN tree.orders[o].families[f].genera[g].species :
                                /\ tree.orders[o].families[f].genera[g].species[e]
                                      .specific_name = e
                                /\ \E s \in inserted :
                                      /\ s.order = o /\ s.family = f
                                      /\ s.generic_name = g /\ s.specific_name = e

\* A species inserted a second time into a tree that holds another species
\* of its genus.
C32_Witness ==
    /\ last.op = "insert_species"
    /\ last.prior = 1
    /\ \E s \in taxa.inserted :
          /\ s # last.kwargs.s
          /\ s.order = last.kwargs.s.order
          /\ s.family = last.kwargs.s.family
          /\ s.generic_name = last.kwargs.s.generic_name
    /\ AtPath(taxa.tree, last.kwargs.s)

====
